---- MODULE Spec2Model ----
(***************************************************************************)
(* A model of the CrossWire KJV OSIS importer (src/scripts/import.ts):     *)
(* the SAX handlers of parseOsis, the colophon post-pass, saveVerse, and   *)
(* the pure helpers computeGematria and extractStrongs.                    *)
(*                                                                         *)
(* A JavaScript string is modelled as a sequence of one-character strings, *)
(* so that trimming, splitting, pattern matching and letter arithmetic are *)
(* computed as the code computes them.                                     *)
(***************************************************************************)
EXTENDS Integers, Sequences, FiniteSets, TLC

(***************************************************************************)
(* Bounds of the model                                                     *)
(***************************************************************************)
\* longest SAX event stream explored by Spec
MaxEvents == 7
\* longest SAX event stream explored by SpecDoc
MaxDocEvents == 12
\* deepest element nesting explored by SpecDoc
MaxDocDepth == 2
\* longest SAX event stream explored by SpecVerse
MaxVerseEvents == 9
\* deepest element nesting explored by SpecVerse
MaxVerseDepth == 3
\* deepest element nesting explored
MaxDepth == 3
\* longest SAX event stream explored by SpecNest
MaxNestEvents == 11
\* deepest element nesting explored by SpecNest
MaxNestDepth == 3
\* longest SAX event stream explored by SpecLog
MaxLogEvents == 8
\* deepest element nesting explored by SpecLog
MaxLogDepth == 3
\* longest SAX event stream of a document that is parsed twice
MaxRerunEvents == 8
\* deepest element nesting of a document that is parsed twice
MaxRerunDepth == 2
\* number of entries of a directory listing handed to loadChapter
MaxFiles == 4
\* number of fragments concatenated into an input of computeGematria
MaxGemFrags == 3
\* number of fragments concatenated into an input of extractStrongs
MaxStrongsFrags == 3

(***************************************************************************)
(* Characters and strings                                                  *)
(***************************************************************************)
UpperLetters ==
  <<"A","B","C","D","E","F","G","H","I","J","K","L","M",
    "N","O","P","Q","R","S","T","U","V","W","X","Y","Z">>

LowerLetters ==
  <<"a","b","c","d","e","f","g","h","i","j","k","l","m",
    "n","o","p","q","r","s","t","u","v","w","x","y","z">>

DigitChars == <<"0","1","2","3","4","5","6","7","8","9">>

IndexIn(seq, c) ==
  IF \E i \in 1..Len(seq) : seq[i] = c
    THEN CHOOSE i \in 1..Len(seq) : seq[i] = c
    ELSE 0

IsDigit(c) == IndexIn(DigitChars, c) > 0

\* the characters JavaScript's \s and trim() treat as white space
IsSpace(c) == c \in {" ", "\n", "\t"}

\* the character class [.,;:!?]
IsPunct(c) == c \in {".", ",", ";", ":", "!", "?"}

\* String.prototype.charCodeAt for the characters of the model
CharCode(c) ==
  IF IndexIn(UpperLetters, c) > 0 THEN 64 + IndexIn(UpperLetters, c)
  ELSE IF IndexIn(LowerLetters, c) > 0 THEN 96 + IndexIn(LowerLetters, c)
  ELSE IF IsDigit(c) THEN 47 + IndexIn(DigitChars, c)
  ELSE IF c = " " THEN 32
  ELSE IF c = "\n" THEN 10
  ELSE IF c = "\t" THEN 9
  ELSE IF c = "!" THEN 33
  ELSE IF c = "," THEN 44
  ELSE IF c = "." THEN 46
  ELSE IF c = "/" THEN 47
  ELSE IF c = ":" THEN 58
  ELSE IF c = ";" THEN 59
  ELSE IF c = "?" THEN 63
  ELSE 95

\* String.prototype.toUpperCase, one character at a time
UpperChar(c) ==
  IF IndexIn(LowerLetters, c) > 0 THEN UpperLetters[IndexIn(LowerLetters, c)] ELSE c

ToUpperCase(s) == [i \in 1..Len(s) |-> UpperChar(s[i])]

RECURSIVE Concat(_)
Concat(ss) == IF ss = <<>> THEN <<>> ELSE Head(ss) \o Concat(Tail(ss))

\* s.replace(/\//g, '')
RemoveSlashes(s) == SelectSeq(s, LAMBDA c : c # "/")

RECURSIVE TrimStart(_)
TrimStart(s) ==
  IF s # <<>> /\ IsSpace(Head(s)) THEN TrimStart(Tail(s)) ELSE s

RECURSIVE TrimEnd(_)
TrimEnd(s) ==
  IF s # <<>> /\ IsSpace(s[Len(s)]) THEN TrimEnd(SubSeq(s, 1, Len(s) - 1)) ELSE s

\* String.prototype.trim
Trim(s) == TrimEnd(TrimStart(s))

\* length of the run of white space at the head of s
RECURSIVE SpaceRunLen(_)
SpaceRunLen(s) ==
  IF s # <<>> /\ IsSpace(Head(s)) THEN 1 + SpaceRunLen(Tail(s)) ELSE 0

\* length of the run of non-white-space characters at the head of s
RECURSIVE TokenRunLen(_)
TokenRunLen(s) ==
  IF s # <<>> /\ ~IsSpace(Head(s)) THEN 1 + TokenRunLen(Tail(s)) ELSE 0

\* length of the run of decimal digits at the head of s
RECURSIVE DigitRunLen(_)
DigitRunLen(s) ==
  IF s # <<>> /\ IsDigit(Head(s)) THEN 1 + DigitRunLen(Tail(s)) ELSE 0

\* s.split(/\s+/).filter(Boolean)
RECURSIVE SplitWords(_)
SplitWords(s) ==
  IF s = <<>> THEN <<>>
  ELSE IF IsSpace(Head(s)) THEN SplitWords(SubSeq(s, 1 + SpaceRunLen(s), Len(s)))
  ELSE LET n == TokenRunLen(s)
       IN  <<SubSeq(s, 1, n)>> \o SplitWords(SubSeq(s, n + 1, Len(s)))

\* /^[.,;:!?]+$/.test(piece)
IsPunctOnly(piece) == piece # <<>> /\ \A i \in 1..Len(piece) : IsPunct(piece[i])

\* a slip: the parts are joined without a separator
RECURSIVE JoinSpace_NoSeparator(_)
JoinSpace_NoSeparator(parts) ==
  IF parts = <<>> THEN <<>> ELSE Head(parts) \o JoinSpace_NoSeparator(Tail(parts))

\* parts.join(' ')
RECURSIVE JoinSpace(_)
JoinSpace(parts) ==
  IF parts = <<>> THEN <<>>
  ELSE IF Len(parts) = 1 THEN parts[1]
  ELSE parts[1] \o <<" ">> \o JoinSpace(Tail(parts))

\* text.replace(/\s+([,.;:!?])/g, '$1')
RECURSIVE CollapseBeforePunct(_)
CollapseBeforePunct(s) ==
  IF s = <<>> THEN <<>>
  ELSE IF IsSpace(Head(s))
    THEN LET n == SpaceRunLen(s)
         IN  IF n < Len(s) /\ IsPunct(s[n + 1])
               THEN CollapseBeforePunct(SubSeq(s, n + 1, Len(s)))
               ELSE SubSeq(s, 1, n) \o CollapseBeforePunct(SubSeq(s, n + 1, Len(s)))
  ELSE <<Head(s)>> \o CollapseBeforePunct(Tail(s))

\* parseInt(digits, 10) of a run of decimal digits
RECURSIVE ParseInt(_)
ParseInt(ds) ==
  IF ds = <<>> THEN 0
  ELSE 10 * ParseInt(SubSeq(ds, 1, Len(ds) - 1)) + (IndexIn(DigitChars, ds[Len(ds)]) - 1)

\* String(n) of a non-negative integer
RECURSIVE NumToString(_)
NumToString(n) ==
  IF n < 10 THEN <<DigitChars[n + 1]>>
  ELSE NumToString(n \div 10) \o <<DigitChars[(n % 10) + 1]>>

(***************************************************************************)
(* computeGematria                                                         *)
(***************************************************************************)
GemZero == [standard |-> 0, ordinal |-> 0, reduced |-> 0]

\* the loop over the characters of the uppercased text
RECURSIVE GemLoop(_, _)
GemLoop(s, result) ==
  IF s = <<>> THEN result
  ELSE LET code == CharCode(Head(s))
       IN  IF code >= 65 /\ code <= 90
             THEN LET val == code - 64
                  IN  GemLoop(Tail(s),
                        [standard |-> result.standard + val,
                         ordinal  |-> result.ordinal + val,
                         reduced  |-> result.reduced
                                        + (IF val % 9 # 0 THEN val % 9 ELSE 9)])
             ELSE GemLoop(Tail(s), result)

\* a slip: ordinal summed from the letter's 1-based index inside the word
RECURSIVE GemLoopByIndex(_, _, _)
GemLoopByIndex(s, i, result) ==
  IF s = <<>> THEN result
  ELSE LET code == CharCode(Head(s))
       IN  IF code >= 65 /\ code <= 90
             THEN LET val == code - 64
                  IN  GemLoopByIndex(Tail(s), i + 1,
                        [standard |-> result.standard + val,
                         ordinal  |-> result.ordinal + i,
                         reduced  |-> result.reduced
                                        + (IF val % 9 # 0 THEN val % 9 ELSE 9)])
             ELSE GemLoopByIndex(Tail(s), i + 1, result)

computeGematria_OrdinalByIndex(text) == GemLoopByIndex(ToUpperCase(text), 1, GemZero)

\* a slip: the reduction val % 9 without the "|| 9"
RECURSIVE GemLoopMod9(_, _)
GemLoopMod9(s, result) ==
  IF s = <<>> THEN result
  ELSE LET code == CharCode(Head(s))
       IN  IF code >= 65 /\ code <= 90
             THEN LET val == code - 64
                  IN  GemLoopMod9(Tail(s),
                        [standard |-> result.standard + val,
                         ordinal  |-> result.ordinal + val,
                         reduced  |-> result.reduced + (val % 9)])
             ELSE GemLoopMod9(Tail(s), result)

computeGematria_Mod9(text) == GemLoopMod9(ToUpperCase(text), GemZero)

\* a slip: the text is not uppercased before the A-Z test
computeGematria_NoUpper(text) == GemLoop(text, GemZero)

computeGematria(text) == GemLoop(ToUpperCase(text), GemZero)

(***************************************************************************)
(* extractStrongs                                                          *)
(***************************************************************************)
\* a nullable JavaScript value: <<>> is null, <<v>> is the value v
Null == <<>>
Some(v) == <<v>>
IsNull(x) == Len(x) = 0
ValueOf(x) == x[1]

StartsWithAt(s, i, pat) ==
  /\ i + Len(pat) - 1 <= Len(s)
  /\ \A k \in 1..Len(pat) : s[i + k - 1] = pat[k]

\* length matched at i by the optional group (?:strongs?:)?, taken greedily
MarkerLenAt(s, i) ==
  IF StartsWithAt(s, i, <<"s","t","r","o","n","g","s",":">>) THEN 8
  ELSE IF StartsWithAt(s, i, <<"s","t","r","o","n","g",":">>) THEN 7
  ELSE 0

\* length matched at j by ([HGhg]?\d{3,5}), 0 when it does not match there
TokenLenAt(s, j) ==
  IF j > Len(s) THEN 0
  ELSE LET withPrefix == IF s[j] \in {"H", "G", "h", "g"}
                           THEN DigitRunLen(SubSeq(s, j + 1, Len(s))) ELSE 0
           bare       == DigitRunLen(SubSeq(s, j, Len(s)))
       IN  IF withPrefix >= 3 THEN 1 + (IF withPrefix > 5 THEN 5 ELSE withPrefix)
           ELSE IF bare >= 3 THEN (IF bare > 5 THEN 5 ELSE bare)
           ELSE 0

\* the match of STRONGS_RE that starts at i: where its group starts and how long
\* the group is (len = 0: no match starts at i)
StrongsMatchAt(s, i) ==
  LET m == MarkerLenAt(s, i)
  IN  IF m > 0 /\ TokenLenAt(s, i + m) > 0
        THEN [at |-> i + m, len |-> TokenLenAt(s, i + m)]
        ELSE [at |-> i, len |-> TokenLenAt(s, i)]

\* the groups of the successive STRONGS_RE.exec(value) calls, from lastIndex i - 1
RECURSIVE StrongsExec(_, _)
StrongsExec(s, i) ==
  IF i > Len(s) THEN <<>>
  ELSE LET m == StrongsMatchAt(s, i)
       IN  IF m.len = 0 THEN StrongsExec(s, i + 1)
           ELSE <<SubSeq(s, m.at, m.at + m.len - 1)>> \o StrongsExec(s, m.at + m.len)

\* the first run of three to five digits of the token: token.match(/\d{3,5}/)
RECURSIVE FirstDigits(_)
FirstDigits(token) ==
  IF token = <<>> THEN <<>>
  ELSE LET n == DigitRunLen(token)
       IN  IF n >= 3 THEN SubSeq(token, 1, IF n > 5 THEN 5 ELSE n)
           ELSE FirstDigits(SubSeq(token, (IF n = 0 THEN 1 ELSE n) + 1, Len(token)))

\* a slip: the digit run is kept as written, without parseInt
StrongsCode_KeepZeros(token) ==
  LET prefix == IF token[1] \in {"H", "G", "h", "g"} THEN <<UpperChar(token[1])>> ELSE <<>>
  IN  (IF prefix = <<>> THEN <<"H">> ELSE prefix) \o FirstDigits(token)

\* a slip: the prefix is kept as written, without toUpperCase
StrongsCode_KeepCase(token) ==
  LET prefix == IF token[1] \in {"H", "G", "h", "g"} THEN <<token[1]>> ELSE <<>>
  IN  (IF prefix = <<>> THEN <<"H">> ELSE prefix) \o NumToString(ParseInt(FirstDigits(token)))

\* the body of the while loop: one matched token to one code
StrongsCode(token) ==
  LET prefix == IF token[1] \in {"H", "G", "h", "g"} THEN <<UpperChar(token[1])>> ELSE <<>>
  IN  (IF prefix = <<>> THEN <<"H">> ELSE prefix) \o NumToString(ParseInt(FirstDigits(token)))

\* the sequence without the elements that occurred before
RECURSIVE WithoutRepeats(_)
WithoutRepeats(seq) ==
  IF seq = <<>> THEN <<>>
  ELSE LET init == SubSeq(seq, 1, Len(seq) - 1)
           last == seq[Len(seq)]
       IN  IF \E i \in 1..Len(init) : init[i] = last
             THEN WithoutRepeats(init)
             ELSE Append(WithoutRepeats(init), last)

\* a slip: a code that was already found is not pushed again
extractStrongs_Dedup(value) ==
  IF IsNull(value) \/ ValueOf(value) = <<>> THEN <<>>
  ELSE LET tokens == StrongsExec(ValueOf(value), 1)
       IN  WithoutRepeats([k \in 1..Len(tokens) |-> StrongsCode(tokens[k])])

\* value is a nullable string
extractStrongs(value) ==
  IF IsNull(value) \/ ValueOf(value) = <<>> THEN <<>>
  ELSE LET tokens == StrongsExec(ValueOf(value), 1)
       IN  [k \in 1..Len(tokens) |-> StrongsCode(tokens[k])]

\* where the first match of STRONGS_RE from lastIndex i - 1 ends: the lastIndex
\* that exec leaves, 0 when nothing matches
RECURSIVE StrongsExecEnd(_, _)
StrongsExecEnd(s, i) ==
  IF i > Len(s) THEN 0
  ELSE LET m == StrongsMatchAt(s, i)
       IN  IF m.len = 0 THEN StrongsExecEnd(s, i + 1) ELSE m.at + m.len - 1

\* a slip: exec is called once, from the lastIndex the last call left
extractStrongsCall_OneExec(value, lastIdx) ==
  IF IsNull(value) \/ ValueOf(value) = <<>> THEN [results |-> <<>>, lastIndex |-> lastIdx]
  ELSE LET tokens == StrongsExec(ValueOf(value), lastIdx + 1)
       IN  [results   |-> IF tokens = <<>> THEN <<>> ELSE <<StrongsCode(tokens[1])>>,
            lastIndex |-> StrongsExecEnd(ValueOf(value), lastIdx + 1)]

\* a call of extractStrongs when STRONGS_RE.lastIndex is lastIdx: what it
\* returns and the lastIndex it leaves.  The index is set to 0 before the
\* loop, and the exec that finds no further match leaves it at 0.
extractStrongsCall(value, lastIdx) ==
  IF IsNull(value) \/ ValueOf(value) = <<>> THEN [results |-> <<>>, lastIndex |-> lastIdx]
  ELSE LET start  == 0
           tokens == StrongsExec(ValueOf(value), start + 1)
       IN  [results   |-> [k \in 1..Len(tokens) |-> StrongsCode(tokens[k])],
            lastIndex |-> 0]

(***************************************************************************)
(* loadChapter (src/tests/source.test.ts)                                  *)
(***************************************************************************)
\* f.endsWith('.json')
EndsWithJson(f) ==
  Len(f) >= 5 /\ SubSeq(f, Len(f) - 4, Len(f)) = <<".","j","s","o","n">>

\* parseInt(a.replace('.json', ''), 10) of a name that starts with digits
FileNumber(f) == ParseInt(SubSeq(f, 1, DigitRunLen(f)))

\* a slip: the names are compared as strings, by their first character
SortsBefore_ByName(a, b) == CharCode(a[1]) < CharCode(b[1])

\* the comparator of the sort is negative: numA - numB < 0
SortsBefore(a, b) == FileNumber(a) - FileNumber(b) < 0

\* Array.prototype.sort with the comparator: stable, by insertion
RECURSIVE InsertSorted(_, _)
InsertSorted(sorted, f) ==
  IF sorted = <<>> THEN <<f>>
  ELSE IF SortsBefore(f, Head(sorted)) THEN <<f>> \o sorted
  ELSE <<Head(sorted)>> \o InsertSorted(Tail(sorted), f)

RECURSIVE SortFiles(_)
SortFiles(fs) ==
  IF fs = <<>> THEN <<>>
  ELSE InsertSorted(SortFiles(SubSeq(fs, 1, Len(fs) - 1)), fs[Len(fs)])

\* JSON.parse(await readFile(join(chapterPath, file))): the record in the file
StoredRecord(file) == [file |-> file]

\* files is what readdir returned
loadChapter(files) ==
  LET jsonFiles == SortFiles(SelectSeq(files, EndsWithJson))
  IN  [k \in 1..Len(jsonFiles) |-> StoredRecord(jsonFiles[k])]

(***************************************************************************)
(* State                                                                   *)
(***************************************************************************)
VARIABLES
  \* parseOsis: the results and the variables its handlers close over
  verses, colophons, current, words, pos, noteDepth,
  inColophon, colophonBook, colophonWords, colophonPos,
  inWord, inTransChange, wordText, wordAttrs, transChangeText, transChangeAttrs,
  \* the SAX event stream: open elements, events delivered, was the last one text
  openTags, nEvents, afterText,
  \* main: where the pass is, the next verse to save, the files written
  phase, saveIdx, files,
  \* a call of computeGematria: its argument and its result
  gemText, gemResult,
  \* a call of extractStrongs: its argument and its result
  strongsValue, strongsResult,
  \* a call of loadChapter: what readdir returns and the result
  dirListing, chapterResult,
  \* STRONGS_RE.lastIndex, shared by all the calls of extractStrongs
  lastIndex,
  \* a second pass over the same document: which pass runs, the events the
  \* first pass consumed, what the first pass returned and what it saved
  pass, eventLog, firstVerses, firstFiles

parseVars ==
  <<verses, colophons, current, words, pos, noteDepth,
    inColophon, colophonBook, colophonWords, colophonPos,
    inWord, inTransChange, wordText, wordAttrs, transChangeText, transChangeAttrs>>

streamVars == <<openTags, nEvents, afterText>>

mainVars == <<phase, saveIdx, files>>

argVars == <<gemText, gemResult, strongsValue, strongsResult, dirListing, chapterResult>>

callVars == <<argVars, lastIndex>>

rerunVars == <<pass, eventLog, firstVerses, firstFiles>>

vars == <<parseVars, streamVars, mainVars, callVars, rerunVars>>

\* an object without keys
EmptyObject == <<>>

\* the state of parseOsis before the first event
ParseInit ==
  /\ verses = <<>>
  /\ colophons = <<>>
  /\ current = Null
  /\ words = <<>>
  /\ pos = 1
  /\ noteDepth = 0
  /\ inColophon = FALSE
  /\ colophonBook = Null
  /\ colophonWords = <<>>
  /\ colophonPos = 1
  /\ inWord = FALSE
  /\ inTransChange = FALSE
  /\ wordText = <<>>
  /\ wordAttrs = EmptyObject
  /\ transChangeText = <<>>
  /\ transChangeAttrs = EmptyObject

StreamInit ==
  /\ openTags = <<>>
  /\ nEvents = 0
  /\ afterText = FALSE

MainInit ==
  /\ phase = "parse"
  /\ saveIdx = 1
  /\ files = <<>>

CallInit ==
  /\ gemText = <<>>
  /\ gemResult = Null
  /\ strongsValue = Null
  /\ strongsResult = Null
  /\ dirListing = <<>>
  /\ chapterResult = Null
  /\ lastIndex = 0

RerunInit ==
  /\ pass = 1
  /\ eventLog = <<>>
  /\ firstVerses = <<>>
  /\ firstFiles = <<>>

(***************************************************************************)
(* The documents explored: element tags and character data                 *)
(***************************************************************************)
BookRom == <<"R","o","m">>
BookGal == <<"G","a","l">>

RefRom11 == <<"R","o","m",".","1",".","1">>
RefRom12 == <<"R","o","m",".","1",".","2">>
RefGal11 == <<"G","a","l",".","1",".","1">>

VerseRefs == {RefRom11, RefRom12, RefGal11}

LemmaH0430 == <<"s","t","r","o","n","g",":","H","0","4","3","0">>
LemmaTwo ==
  <<"s","t","r","o","n","g",":","G","2","5"," ",
    "s","t","r","o","n","g",":","G","3","5","8","8">>
MorphVerb == <<"r","o","b","i","n","s","o","n",":","V">>

Tag(name, attributes, isSelfClosing) ==
  [name |-> name, attributes |-> attributes, isSelfClosing |-> isSelfClosing]

\* <div type="colophon" osisID="Rom.c">, <div type="colophon" osisID="Gal.c">,
\* and a div that is no colophon: <div type="book" osisID="Rom">
DivTags ==
  { Tag("div", [type |-> <<"c","o","l","o","p","h","o","n">>, osisID |-> BookRom \o <<".","c">>], FALSE),
    Tag("div", [type |-> <<"c","o","l","o","p","h","o","n">>, osisID |-> BookGal \o <<".","c">>], FALSE),
    Tag("div", [type |-> <<"b","o","o","k">>, osisID |-> BookRom], FALSE) }

\* <verse osisID=r sID=r/>, <verse eID=r/> and <verse osisID=r>...</verse>
VerseStartTags == { Tag("verse", [osisID |-> r, sID |-> r], TRUE) : r \in VerseRefs }
VerseEndTags == { Tag("verse", [eID |-> RefRom11], TRUE) }
VerseContainerTags == { Tag("verse", [osisID |-> r], FALSE) : r \in VerseRefs }

\* a verse-start marker whose reference has no verse number:
\* <verse osisID="Rom.1" sID="Rom.1"/>
RefRom1 == <<"R","o","m",".","1">>
ShortVerseStartTags == { Tag("verse", [osisID |-> RefRom1, sID |-> RefRom1], TRUE) }

\* <w>, <w lemma=".." morph="..">, <w lemma=".. .." src="2">
WordTags ==
  { Tag("w", EmptyObject, FALSE),
    Tag("w", [lemma |-> LemmaH0430, morph |-> MorphVerb], FALSE),
    Tag("w", [lemma |-> LemmaTwo, src |-> <<"2">>], FALSE) }

\* <transChange type="added">
TransChangeTags == { Tag("transChange", [type |-> <<"a","d","d","e","d">>], FALSE) }

\* <transChange>
PlainTransChangeTags == { Tag("transChange", EmptyObject, FALSE) }

NoteTags == { Tag("note", EmptyObject, FALSE) }

\* <seg type="x">
SegTags == { Tag("seg", [type |-> <<"x">>], FALSE) }

Tags ==
  DivTags \cup VerseStartTags \cup ShortVerseStartTags \cup VerseEndTags
    \cup VerseContainerTags
    \cup WordTags \cup TransChangeTags \cup PlainTransChangeTags \cup NoteTags \cup SegTags

\* character data: a word, two words, a word with its punctuation apart,
\* punctuation alone, white space alone, a slash-marked alternative
Texts ==
  { <<"G","o","d">>, <<"a"," ","b">>, <<"s","o"," ",",">>, <<".">>, <<" ">>, <<"x","/","y">> }

\* tag.attributes[key] as a nullable string (null stands for undefined)
Attr(tag, key) ==
  IF key \in DOMAIN tag.attributes THEN Some(tag.attributes[key]) ELSE Null

\* JavaScript truthiness of a nullable string
Truthy(x) == ~IsNull(x) /\ ValueOf(x) # <<>>

\* value || null
OrNull(x) == IF Truthy(x) THEN x ELSE Null

IsWordChar(c) ==
  IndexIn(UpperLetters, c) > 0 \/ IndexIn(LowerLetters, c) > 0 \/ IsDigit(c) \/ c = "_"

RECURSIVE WordCharRunLen(_)
WordCharRunLen(s) ==
  IF s # <<>> /\ IsWordChar(Head(s)) THEN 1 + WordCharRunLen(Tail(s)) ELSE 0

\* osisId.match(/^(\w+)\./): the book as a nullable string
ColophonBookOf(osisId) ==
  LET n == WordCharRunLen(osisId)
  IN  IF n >= 1 /\ n < Len(osisId) /\ osisId[n + 1] = "." THEN Some(SubSeq(osisId, 1, n))
      ELSE Null

\* length of the run of characters other than "." at the head of s
RECURSIVE PartLen(_)
PartLen(s) == IF s # <<>> /\ Head(s) # "." THEN 1 + PartLen(Tail(s)) ELSE 0

\* osisId.split('.')
RECURSIVE SplitDots(_)
SplitDots(s) ==
  LET n == PartLen(s)
  IN  IF n = Len(s) THEN <<s>>
      ELSE <<SubSeq(s, 1, n)>> \o SplitDots(SubSeq(s, n + 2, Len(s)))

(***************************************************************************)
(* parseOsis: the handlers                                                 *)
(***************************************************************************)
\* a ParsedWord
Word(position, text, lemma, morph, strongs, metadata) ==
  [position |-> position, text |-> text, lemma |-> lemma, morph |-> morph,
   strongs |-> strongs, metadata |-> metadata]

\* the object without the given keys
ObjectWithout(obj, keys) ==
  IF DOMAIN obj \subseteq keys THEN EmptyObject
  ELSE [k \in DOMAIN obj \ keys |-> obj[k]]

\* the object with obj[key] = value
ObjectPut(obj, key, value) ==
  [k \in DOMAIN obj \cup {key} |-> IF k = key THEN value ELSE obj[k]]

\* current || inColophon
Active == ~IsNull(current) \/ inColophon

\* a slip: a punctuation token becomes a word of its own
RECURSIVE TailLoop_PunctIsWord(_, _, _)
TailLoop_PunctIsWord(pieces, ws, p) ==
  IF pieces = <<>> THEN [words |-> ws, pos |-> p]
  ELSE TailLoop_PunctIsWord(Tail(pieces),
         Append(ws, Word(p, Head(pieces), Null, Null, Null, EmptyObject)), p + 1)

\* a slip: a tail-text word does not advance the counter
RECURSIVE TailLoop_NoAdvance(_, _, _)
TailLoop_NoAdvance(pieces, ws, p) ==
  IF pieces = <<>> THEN [words |-> ws, pos |-> p]
  ELSE IF IsPunctOnly(Head(pieces)) /\ Len(ws) > 0
    THEN TailLoop_NoAdvance(Tail(pieces),
           [ws EXCEPT ![Len(ws)].text = @ \o Head(pieces)], p)
    ELSE TailLoop_NoAdvance(Tail(pieces),
           Append(ws, Word(p, Head(pieces), Null, Null, Null, EmptyObject)), p)

\* the loop of processTailText over the pieces: the words and the counter after it
RECURSIVE TailLoop(_, _, _)
TailLoop(pieces, ws, p) ==
  IF pieces = <<>> THEN [words |-> ws, pos |-> p]
  ELSE IF IsPunctOnly(Head(pieces)) /\ Len(ws) > 0
    THEN TailLoop(Tail(pieces), [ws EXCEPT ![Len(ws)].text = @ \o Head(pieces)], p)
    ELSE TailLoop(Tail(pieces),
           Append(ws, Word(p, Head(pieces), Null, Null, Null, EmptyObject)), p + 1)

processTailText(text) ==
  IF Trim(text) = <<>> \/ IsNull(current) \/ noteDepth > 0
    THEN UNCHANGED <<words, pos>>
    ELSE LET r == TailLoop(SplitWords(Trim(RemoveSlashes(text))), words, pos)
         IN  words' = r.words /\ pos' = r.pos

\* a slip: the colophon flag is left out
ElementMetadata_NoFlag(base, inCol) == base

\* the metadata of a word or translator insertion: the colophon flag is added
\* inside a colophon
ElementMetadata(base, inCol) ==
  IF inCol
    THEN ObjectPut(ObjectPut(base, "colophon", TRUE), "colophon_type", "subscription")
    ELSE base

\* a slip: every piece of the element gets the position of the first
PieceWords_SamePosition(pieces, start, lemma, morph, strongs, metadata) ==
  [k \in 1..Len(pieces) |-> Word(start, pieces[k], lemma, morph, strongs, metadata)]

\* the words of one closing w element, one per piece, numbered from start
PieceWords(pieces, start, lemma, morph, strongs, metadata) ==
  [k \in 1..Len(pieces) |->
     Word(start + k - 1, pieces[k], lemma, morph, strongs, metadata)]

(***************************************************************************)
(* parser.on('opentag')                                                    *)
(***************************************************************************)
\* true when the stream may deliver an event that leaves n elements open:
\* the document still fits in MaxEvents events once they are closed
Fits(n, maxEvents) == nEvents + 1 + n <= maxEvents

\* after <x/> nothing comes before its close
NotInSelfClosing ==
  IF openTags = <<>> THEN TRUE ELSE ~openTags[Len(openTags)].isSelfClosing

OpenDiv(tag) ==
  LET divType == Attr(tag, "type")
      osisId  == Attr(tag, "osisID")
      book    == IF Truthy(osisId) THEN ColophonBookOf(ValueOf(osisId)) ELSE Null
  IN  IF divType = Some(<<"c","o","l","o","p","h","o","n">>) /\ Truthy(osisId) /\ ~IsNull(book)
        THEN /\ inColophon' = TRUE
             /\ colophonBook' = book
             /\ colophonWords' = <<>>
             /\ colophonPos' = 1
        ELSE UNCHANGED <<inColophon, colophonBook, colophonWords, colophonPos>>

\* a slip: a verse-start marker is taken although a verse is open
OpenVerse_WhileOpen(tag) ==
  LET osisId == Attr(tag, "osisID")
      parts  == IF Truthy(osisId) THEN SplitDots(ValueOf(osisId)) ELSE <<>>
  IN  IF Truthy(osisId) /\ Len(parts) = 3
        THEN /\ current' = Some([book |-> parts[1],
                                 chapter |-> ParseInt(parts[2]),
                                 number |-> ParseInt(parts[3])])
             /\ words' = <<>>
             /\ pos' = 1
        ELSE UNCHANGED <<current, words, pos>>

OpenVerse(tag) ==
  LET osisId == Attr(tag, "osisID")
      parts  == IF Truthy(osisId) THEN SplitDots(ValueOf(osisId)) ELSE <<>>
  IN  IF Truthy(osisId) /\ IsNull(current) /\ Len(parts) = 3
        THEN /\ current' = Some([book |-> parts[1],
                                 chapter |-> ParseInt(parts[2]),
                                 number |-> ParseInt(parts[3])])
             /\ words' = <<>>
             /\ pos' = 1
        ELSE UNCHANGED <<current, words, pos>>

OnOpenTag(tag, maxEvents, maxDepth) ==
  /\ phase = "parse"
  /\ NotInSelfClosing
  /\ Len(openTags) < maxDepth
  /\ Fits(Len(openTags) + 1, maxEvents)
  /\ openTags' = Append(openTags, tag)
  /\ nEvents' = nEvents + 1
  /\ afterText' = FALSE
  /\ IF tag.name = "div"
       THEN /\ OpenDiv(tag)
            /\ UNCHANGED <<current, words, pos, inWord, wordText, wordAttrs,
                           inTransChange, transChangeText, transChangeAttrs, noteDepth>>
     ELSE IF tag.name = "verse"
       THEN /\ OpenVerse(tag)
            /\ UNCHANGED <<inColophon, colophonBook, colophonWords, colophonPos,
                           inWord, wordText, wordAttrs,
                           inTransChange, transChangeText, transChangeAttrs, noteDepth>>
     ELSE IF tag.name = "w" /\ Active /\ noteDepth = 0
       THEN /\ inWord' = TRUE
            /\ wordText' = <<>>
            /\ wordAttrs' = tag.attributes
            /\ UNCHANGED <<current, words, pos, inColophon, colophonBook, colophonWords,
                           colophonPos, inTransChange, transChangeText, transChangeAttrs,
                           noteDepth>>
     ELSE IF tag.name = "transChange" /\ Active /\ noteDepth = 0
       THEN /\ inTransChange' = TRUE
            /\ transChangeText' = <<>>
            /\ transChangeAttrs' = tag.attributes
            /\ UNCHANGED <<current, words, pos, inColophon, colophonBook, colophonWords,
                           colophonPos, inWord, wordText, wordAttrs, noteDepth>>
     ELSE IF tag.name = "note" /\ Active
       THEN /\ noteDepth' = noteDepth + 1
            /\ UNCHANGED <<current, words, pos, inColophon, colophonBook, colophonWords,
                           colophonPos, inWord, wordText, wordAttrs,
                           inTransChange, transChangeText, transChangeAttrs>>
     ELSE UNCHANGED <<current, words, pos, inColophon, colophonBook, colophonWords,
                      colophonPos, inWord, wordText, wordAttrs,
                      inTransChange, transChangeText, transChangeAttrs, noteDepth>>
  /\ UNCHANGED <<verses, colophons, mainVars, callVars>>

(***************************************************************************)
(* parser.on('text')                                                       *)
(***************************************************************************)
OnText(text, maxEvents) ==
  /\ phase = "parse"
  /\ NotInSelfClosing
  /\ ~afterText
  /\ Fits(Len(openTags), maxEvents)
  /\ nEvents' = nEvents + 1
  /\ afterText' = TRUE
  /\ IF noteDepth > 0
       THEN UNCHANGED <<wordText, transChangeText, words, pos>>
     ELSE IF inWord
       THEN wordText' = wordText \o text /\ UNCHANGED <<transChangeText, words, pos>>
     ELSE IF inTransChange
       THEN transChangeText' = transChangeText \o text /\ UNCHANGED <<wordText, words, pos>>
     ELSE IF ~IsNull(current)
       THEN processTailText(text) /\ UNCHANGED <<wordText, transChangeText>>
     ELSE UNCHANGED <<wordText, transChangeText, words, pos>>
  /\ UNCHANGED <<verses, colophons, current, noteDepth, inColophon, colophonBook,
                 colophonWords, colophonPos, inWord, inTransChange, wordAttrs,
                 transChangeAttrs, openTags, mainVars, callVars>>

(***************************************************************************)
(* parser.on('closetag')                                                   *)
(***************************************************************************)
\* a slip: a colophon without words is recorded too
CloseDiv_RecordEmpty ==
  /\ colophons' = IF inColophon /\ Truthy(colophonBook)
                    THEN Append(colophons,
                                [book |-> ValueOf(colophonBook), words |-> colophonWords])
                    ELSE colophons
  /\ inColophon' = FALSE
  /\ colophonBook' = Null

CloseDiv ==
  /\ colophons' = IF inColophon /\ Truthy(colophonBook) /\ Len(colophonWords) > 0
                    THEN Append(colophons,
                                [book |-> ValueOf(colophonBook), words |-> colophonWords])
                    ELSE colophons
  /\ inColophon' = FALSE
  /\ colophonBook' = Null

\* a slip: the space before punctuation is kept
VerseText_NoCollapse(ws) == JoinSpace([k \in 1..Len(ws) |-> ws[k].text])

\* the text of a finished verse
VerseText(ws) == CollapseBeforePunct(JoinSpace([k \in 1..Len(ws) |-> ws[k].text]))

\* a slip: an end marker finalizes the buffered words also when no verse is open
CloseVerse_AlsoWhenClosed(tag) ==
  IF \/ Truthy(Attr(tag, "eID"))
     \/ (Truthy(Attr(tag, "osisID")) /\ ~Truthy(Attr(tag, "sID")))
    THEN /\ verses' = Append(verses,
                        [book |-> IF IsNull(current) THEN <<>> ELSE ValueOf(current).book,
                         chapter |-> IF IsNull(current) THEN 0 ELSE ValueOf(current).chapter,
                         number |-> IF IsNull(current) THEN 0 ELSE ValueOf(current).number,
                         text |-> VerseText(words),
                         words |-> words,
                         colophonWords |-> Null])
         /\ current' = Null
    ELSE UNCHANGED <<verses, current>>

\* a slip: the close of a start milestone ends the verse too
CloseVerse_StartMilestoneEnds(tag) ==
  IF /\ ~IsNull(current)
     /\ \/ Truthy(Attr(tag, "eID"))
        \/ Truthy(Attr(tag, "osisID"))
    THEN /\ verses' = Append(verses,
                        [book |-> ValueOf(current).book,
                         chapter |-> ValueOf(current).chapter,
                         number |-> ValueOf(current).number,
                         text |-> VerseText(words),
                         words |-> words,
                         colophonWords |-> Null])
         /\ current' = Null
    ELSE UNCHANGED <<verses, current>>

CloseVerse(tag) ==
  IF /\ ~IsNull(current)
     /\ \/ Truthy(Attr(tag, "eID"))
        \/ (Truthy(Attr(tag, "osisID")) /\ ~Truthy(Attr(tag, "sID")))
    THEN /\ verses' = Append(verses,
                        [book |-> ValueOf(current).book,
                         chapter |-> ValueOf(current).chapter,
                         number |-> ValueOf(current).number,
                         text |-> VerseText(words),
                         words |-> words,
                         colophonWords |-> Null])
         /\ current' = Null
    ELSE UNCHANGED <<verses, current>>

\* a slip: a word of a colophon is numbered by the counter of the verse
ClosedWordEntries_VerseCounter ==
  LET wText    == Trim(RemoveSlashes(wordText))
      lemma    == OrNull(Attr([attributes |-> wordAttrs], "lemma"))
      morph    == OrNull(Attr([attributes |-> wordAttrs], "morph"))
      strongs  == IF IsNull(lemma) THEN Null
                  ELSE Some(extractStrongsCall(lemma, lastIndex).results)
      metadata == ElementMetadata(ObjectWithout(wordAttrs, {"lemma", "morph"}), inColophon)
  IN  PieceWords(SplitWords(wText), pos, lemma, morph,
                 IF ~IsNull(strongs) /\ Len(ValueOf(strongs)) > 0 THEN strongs ELSE Null,
                 metadata)

\* the words a closing w element adds
ClosedWordEntries ==
  LET wText    == Trim(RemoveSlashes(wordText))
      lemma    == OrNull(Attr([attributes |-> wordAttrs], "lemma"))
      morph    == OrNull(Attr([attributes |-> wordAttrs], "morph"))
      strongs  == IF IsNull(lemma) THEN Null
                  ELSE Some(extractStrongsCall(lemma, lastIndex).results)
      metadata == ElementMetadata(ObjectWithout(wordAttrs, {"lemma", "morph"}), inColophon)
  IN  PieceWords(SplitWords(wText),
                 IF inColophon THEN colophonPos ELSE pos,
                 lemma, morph,
                 IF ~IsNull(strongs) /\ Len(ValueOf(strongs)) > 0 THEN strongs ELSE Null,
                 metadata)

CloseWord ==
  LET entries == ClosedWordEntries
      lemma   == OrNull(Attr([attributes |-> wordAttrs], "lemma"))
  IN  /\ inWord' = FALSE
      /\ lastIndex' = IF Trim(RemoveSlashes(wordText)) = <<>> THEN lastIndex
                       ELSE extractStrongsCall(lemma, lastIndex).lastIndex
      /\ IF inColophon
           THEN /\ colophonWords' = colophonWords \o entries
                /\ colophonPos' = colophonPos + Len(entries)
                /\ UNCHANGED <<words, pos>>
           ELSE /\ words' = words \o entries
                /\ pos' = pos + Len(entries)
                /\ UNCHANGED <<colophonWords, colophonPos>>

\* the word a closing transChange element adds: none when its text is blank
ClosedTransChangeEntries ==
  LET tcText == Trim(transChangeText)
  IN  IF tcText = <<>> THEN <<>>
      ELSE << Word(IF inColophon THEN colophonPos ELSE pos, tcText, Null, Null, Null,
                   ElementMetadata(transChangeAttrs, inColophon)) >>

CloseTransChange ==
  LET entries == ClosedTransChangeEntries
  IN  /\ inTransChange' = FALSE
      /\ IF inColophon
           THEN /\ colophonWords' = colophonWords \o entries
                /\ colophonPos' = colophonPos + Len(entries)
                /\ UNCHANGED <<words, pos>>
           ELSE /\ words' = words \o entries
                /\ pos' = pos + Len(entries)
                /\ UNCHANGED <<colophonWords, colophonPos>>

\* the last word with { type: segType } pushed onto its metadata.segments
CloseSeg(tag) ==
  LET segType == Attr(tag, "type")
  IN  IF Len(words) > 0 /\ Truthy(segType)
        THEN LET meta     == words[Len(words)].metadata
                 segments == IF "segments" \in DOMAIN meta THEN meta["segments"] ELSE <<>>
             IN  words' = [words EXCEPT ![Len(words)].metadata =
                             ObjectPut(meta, "segments",
                                       Append(segments, [type |-> ValueOf(segType)]))]
        ELSE UNCHANGED words

\* a slip: the close of a note is counted only inside a verse or a colophon,
\* as its open is
CountsNoteClose_NeedsActive(tag) == tag.name = "note" /\ noteDepth > 0 /\ Active

\* the closing element is a note and a note is counted
CountsNoteClose(tag) == tag.name = "note" /\ noteDepth > 0

OnCloseTag ==
  /\ phase = "parse"
  /\ openTags # <<>>
  /\ LET tag == openTags[Len(openTags)]
     IN  IF tag.name = "div"
           THEN /\ CloseDiv
                /\ UNCHANGED <<verses, current, words, pos, colophonWords, colophonPos,
                               inWord, inTransChange, noteDepth, lastIndex>>
         ELSE IF tag.name = "verse"
           THEN /\ CloseVerse(tag)
                /\ UNCHANGED <<colophons, inColophon, colophonBook, words, pos,
                               colophonWords, colophonPos, inWord, inTransChange, noteDepth,
                               lastIndex>>
         ELSE IF tag.name = "w" /\ inWord /\ Active /\ noteDepth = 0
           THEN /\ CloseWord
                /\ UNCHANGED <<verses, colophons, current, inColophon, colophonBook,
                               inTransChange, noteDepth>>
         ELSE IF tag.name = "transChange" /\ inTransChange /\ Active /\ noteDepth = 0
           THEN /\ CloseTransChange
                /\ UNCHANGED <<verses, colophons, current, inColophon, colophonBook,
                               inWord, noteDepth, lastIndex>>
         ELSE IF CountsNoteClose(tag)
           THEN /\ noteDepth' = noteDepth - 1
                /\ UNCHANGED <<verses, colophons, current, inColophon, colophonBook, words,
                               pos, colophonWords, colophonPos, inWord, inTransChange,
                               lastIndex>>
         ELSE IF tag.name = "seg" /\ ~IsNull(current) /\ noteDepth = 0
           THEN /\ CloseSeg(tag)
                /\ UNCHANGED <<verses, colophons, current, inColophon, colophonBook, pos,
                               colophonWords, colophonPos, inWord, inTransChange, noteDepth,
                               lastIndex>>
         ELSE UNCHANGED <<verses, colophons, current, inColophon, colophonBook, words, pos,
                          colophonWords, colophonPos, inWord, inTransChange, noteDepth,
                          lastIndex>>
  /\ openTags' = SubSeq(openTags, 1, Len(openTags) - 1)
  /\ nEvents' = nEvents + 1
  /\ afterText' = FALSE
  /\ UNCHANGED <<wordText, wordAttrs, transChangeText, transChangeAttrs, mainVars, argVars>>

(***************************************************************************)
(* parseOsis after parser.write(xml).close(): the colophons are attached   *)
(***************************************************************************)
\* the index of the last verse of the book, 0 when the book has no verse
LastVerseOf(vs, book) ==
  IF \E i \in 1..Len(vs) : vs[i].book = book
    THEN CHOOSE i \in 1..Len(vs) :
           vs[i].book = book /\ \A j \in (i + 1)..Len(vs) : vs[j].book # book
    ELSE 0

\* colophon.words[i].position = startPos + i
Renumbered(ws, startPos) == [i \in 1..Len(ws) |-> [ws[i] EXCEPT !.position = startPos + i - 1]]

\* a slip: the colophon is numbered from the last body position, not after it
RECURSIVE AttachLoop_FromLast(_, _, _)
AttachLoop_FromLast(cols, k, vs) ==
  IF k > Len(cols) THEN [verses |-> vs, colophons |-> cols]
  ELSE LET i == LastVerseOf(vs, cols[k].book)
       IN  IF i = 0 THEN AttachLoop_FromLast(cols, k + 1, vs)
           ELSE LET ws == Renumbered(cols[k].words, Len(vs[i].words))
                IN  AttachLoop_FromLast([cols EXCEPT ![k].words = ws], k + 1,
                                        [vs EXCEPT ![i].colophonWords = Some(ws)])

\* a slip: the colophon goes to the first verse of the book
RECURSIVE AttachLoop_FirstVerse(_, _, _)
AttachLoop_FirstVerse(cols, k, vs) ==
  IF k > Len(cols) THEN [verses |-> vs, colophons |-> cols]
  ELSE LET i == IF \E j \in 1..Len(vs) : vs[j].book = cols[k].book
                  THEN CHOOSE j \in 1..Len(vs) :
                         vs[j].book = cols[k].book
                         /\ \A h \in 1..(j - 1) : vs[h].book # cols[k].book
                  ELSE 0
       IN  IF i = 0 THEN AttachLoop_FirstVerse(cols, k + 1, vs)
           ELSE LET ws == Renumbered(cols[k].words, Len(vs[i].words) + 1)
                IN  AttachLoop_FirstVerse([cols EXCEPT ![k].words = ws], k + 1,
                                          [vs EXCEPT ![i].colophonWords = Some(ws)])

\* a slip: a colophon whose book has no verse goes to the last verse parsed
RECURSIVE AttachLoop_ToLastVerse(_, _, _)
AttachLoop_ToLastVerse(cols, k, vs) ==
  IF k > Len(cols) THEN [verses |-> vs, colophons |-> cols]
  ELSE LET found == LastVerseOf(vs, cols[k].book)
           i     == IF found = 0 THEN Len(vs) ELSE found
       IN  IF i = 0 THEN AttachLoop_ToLastVerse(cols, k + 1, vs)
           ELSE LET ws == Renumbered(cols[k].words, Len(vs[i].words) + 1)
                IN  AttachLoop_ToLastVerse([cols EXCEPT ![k].words = ws], k + 1,
                                           [vs EXCEPT ![i].colophonWords = Some(ws)])

\* a slip: the colophon words are pushed onto the words of the verse
RECURSIVE AttachLoop_IntoWords(_, _, _)
AttachLoop_IntoWords(cols, k, vs) ==
  IF k > Len(cols) THEN [verses |-> vs, colophons |-> cols]
  ELSE LET i == LastVerseOf(vs, cols[k].book)
       IN  IF i = 0 THEN AttachLoop_IntoWords(cols, k + 1, vs)
           ELSE LET ws == Renumbered(cols[k].words, Len(vs[i].words) + 1)
                IN  AttachLoop_IntoWords([cols EXCEPT ![k].words = ws], k + 1,
                                         [vs EXCEPT ![i].words = @ \o ws,
                                                    ![i].colophonWords = Some(ws)])

\* the loop over the colophons, from the k-th on
RECURSIVE AttachLoop(_, _, _)
AttachLoop(cols, k, vs) ==
  IF k > Len(cols) THEN [verses |-> vs, colophons |-> cols]
  ELSE LET i == LastVerseOf(vs, cols[k].book)
       IN  IF i = 0 THEN AttachLoop(cols, k + 1, vs)
           ELSE LET ws == Renumbered(cols[k].words, Len(vs[i].words) + 1)
                IN  AttachLoop([cols EXCEPT ![k].words = ws], k + 1,
                               [vs EXCEPT ![i].colophonWords = Some(ws)])

\* a slip: the verses are handed to the saving loop without the colophons
EndDocument_SkipAttach ==
  /\ phase = "parse"
  /\ openTags = <<>>
  /\ phase' = IF Len(verses) = 0 THEN "exit" ELSE "save"
  /\ UNCHANGED <<parseVars, streamVars, saveIdx, files, callVars>>

\* the stream ends with every element closed; parseOsis attaches the colophons
\* and returns, and main goes on to save the verses, or exits when there is none
EndDocument ==
  /\ phase = "parse"
  /\ openTags = <<>>
  /\ LET r == AttachLoop(colophons, 1, verses)
     IN  /\ verses' = r.verses
         /\ colophons' = r.colophons
  /\ phase' = IF Len(verses) = 0 THEN "exit" ELSE "save"
  /\ UNCHANGED <<current, words, pos, noteDepth, inColophon, colophonBook, colophonWords,
                 colophonPos, inWord, inTransChange, wordText, wordAttrs, transChangeText,
                 transChangeAttrs, streamVars, saveIdx, files, callVars>>

(***************************************************************************)
(* saveVerse and the loop of main                                          *)
(***************************************************************************)
\* a WordEntry in memory; for strongs and metadata <<>> stands for undefined
WordEntry(w) ==
  [position |-> w.position,
   text     |-> w.text,
   lemma    |-> w.lemma,
   morph    |-> w.morph,
   strongs  |-> IF ~IsNull(w.strongs) /\ Len(ValueOf(w.strongs)) > 0 THEN w.strongs ELSE Null,
   metadata |-> IF DOMAIN w.metadata # {} THEN Some(w.metadata) ELSE Null,
   gematria |-> computeGematria(w.text)]

WordEntries(ws) == [k \in 1..Len(ws) |-> WordEntry(ws[k])]

\* entry.metadata?.colophon
HasColophonFlag(entry) ==
  /\ ~IsNull(entry.metadata)
  /\ "colophon" \in DOMAIN ValueOf(entry.metadata)
  /\ ValueOf(entry.metadata)["colophon"] = TRUE

\* totals[k] = (totals[k] || 0) + v for every key of the entry's gematria
AddGematria(totals, g) ==
  [k \in DOMAIN totals \cup DOMAIN g |->
     (IF k \in DOMAIN totals THEN totals[k] ELSE 0) + g[k]]

\* a slip: the colophon words are counted too
RECURSIVE TotalsLoop_CountAll(_, _)
TotalsLoop_CountAll(entries, totals) ==
  IF entries = <<>> THEN totals
  ELSE TotalsLoop_CountAll(Tail(entries), AddGematria(totals, Head(entries).gematria))

\* the loop that sums the gematria of the entries without the colophon flag
RECURSIVE TotalsLoop(_, _)
TotalsLoop(entries, totals) ==
  IF entries = <<>> THEN totals
  ELSE IF HasColophonFlag(Head(entries)) THEN TotalsLoop(Tail(entries), totals)
  ELSE TotalsLoop(Tail(entries), AddGematria(totals, Head(entries).gematria))

\* JSON.stringify of a WordEntry: a key whose value is undefined is left out,
\* a null value is written as null
JsonWord(entry) ==
  [k \in {"position", "text", "lemma", "morph", "gematria"}
         \cup (IF IsNull(entry.strongs) THEN {} ELSE {"strongs"})
         \cup (IF IsNull(entry.metadata) THEN {} ELSE {"metadata"}) |->
     IF k = "strongs" THEN ValueOf(entry.strongs)
     ELSE IF k = "metadata" THEN ValueOf(entry.metadata)
     ELSE entry[k]]

HasColophonWords(verse) ==
  ~IsNull(verse.colophonWords) /\ Len(ValueOf(verse.colophonWords)) > 0

\* a slip: the colophon metadata is written for every verse
VerseMetadataKeys_Always(verse) == {"metadata"}

\* the optional keys of the record: metadata, when the verse has colophon words
VerseMetadataKeys(verse) == IF HasColophonWords(verse) THEN {"metadata"} ELSE {}

\* the record saveVerse writes for the verse
VerseData(verse) ==
  LET colWords == IF HasColophonWords(verse) THEN ValueOf(verse.colophonWords) ELSE <<>>
      entries  == WordEntries(verse.words) \o WordEntries(colWords)
      totals   == TotalsLoop(entries, EmptyObject)
      range    == IF colWords = <<>> THEN <<>>
                  ELSE <<colWords[1].position, colWords[Len(colWords)].position>>
  IN  [k \in {"text", "words", "gematria"} \cup VerseMetadataKeys(verse) |->
         IF k = "text" THEN verse.text
         ELSE IF k = "words" THEN [i \in 1..Len(entries) |-> JsonWord(entries[i])]
         ELSE IF k = "gematria" THEN totals
         ELSE [has_colophon |-> TRUE,
               colophon_word_range |-> range,
               colophon_type |-> "subscription"]]

\* join(DATA_DIR, book, chapter, number + '.json')
VersePath(verse) == <<verse.book, verse.chapter, verse.number>>

\* writeFile: the file is created, or replaced when it exists
WriteFile(fs, path, data) ==
  IF \E i \in 1..Len(fs) : fs[i].path = path
    THEN [i \in 1..Len(fs) |-> IF fs[i].path = path THEN [path |-> path, data |-> data]
                                ELSE fs[i]]
    ELSE Append(fs, [path |-> path, data |-> data])

\* one turn of the loop of main: await saveVerse(verse)
SaveVerse ==
  /\ phase = "save"
  /\ saveIdx <= Len(verses)
  /\ files' = WriteFile(files, VersePath(verses[saveIdx]), VerseData(verses[saveIdx]))
  /\ saveIdx' = saveIdx + 1
  /\ phase' = IF saveIdx = Len(verses) THEN "done" ELSE "save"
  /\ UNCHANGED <<parseVars, streamVars, callVars>>

Init == ParseInit /\ StreamInit /\ MainInit /\ CallInit /\ RerunInit

Next ==
  \/ \E tag \in Tags : OnOpenTag(tag, MaxEvents, MaxDepth) /\ UNCHANGED rerunVars
  \/ \E text \in Texts : OnText(text, MaxEvents) /\ UNCHANGED rerunVars
  \/ OnCloseTag /\ UNCHANGED rerunVars
  \/ EndDocument /\ UNCHANGED rerunVars
  \/ SaveVerse /\ UNCHANGED rerunVars

Spec == Init /\ [][Next]_vars

\* documents of whole verse elements, colophon sections of one book, word and
\* translator-insertion elements
DocTags ==
  VerseContainerTags
    \cup { t \in DivTags : t.attributes.osisID = BookRom \o <<".","c">> }
    \cup { t \in WordTags : "morph" \in DOMAIN t.attributes }
    \cup TransChangeTags

DocTexts == { <<"a"," ","b">> }

\* word and translator-insertion elements stand inside a verse or a section
InContent == \E d \in 1..Len(openTags) : openTags[d].name \in {"verse", "div"}

NextDoc ==
  \/ \E tag \in DocTags :
       /\ tag.name \in {"w", "transChange"} => InContent
       /\ OnOpenTag(tag, MaxDocEvents, MaxDocDepth)
       /\ UNCHANGED rerunVars
  \/ \E text \in DocTexts : InContent /\ OnText(text, MaxDocEvents) /\ UNCHANGED rerunVars
  \/ OnCloseTag /\ UNCHANGED rerunVars
  \/ EndDocument /\ UNCHANGED rerunVars
  \/ SaveVerse /\ UNCHANGED rerunVars

SpecDoc == Init /\ [][NextDoc]_vars

\* the content of one verse: word and translator-insertion elements, notes,
\* segments and character data
InVerseTags ==
  { t \in VerseContainerTags : t.attributes.osisID = RefRom11 }
    \cup { t \in WordTags : "src" \notin DOMAIN t.attributes }
    \cup TransChangeTags \cup NoteTags \cup SegTags

InVerseTexts == { <<"G","o","d">>, <<"s","o"," ",",">>, <<".">>, <<"x","/","y">> }

NextVerse ==
  \/ \E tag \in InVerseTags :
       OnOpenTag(tag, MaxVerseEvents, MaxVerseDepth) /\ UNCHANGED rerunVars
  \/ \E text \in InVerseTexts : OnText(text, MaxVerseEvents) /\ UNCHANGED rerunVars
  \/ OnCloseTag /\ UNCHANGED rerunVars
  \/ EndDocument /\ UNCHANGED rerunVars
  \/ SaveVerse /\ UNCHANGED rerunVars

SpecVerse == Init /\ [][NextVerse]_vars

\* a verse, colophon sections and other sections in any nesting, with word
\* elements and character data
NestTags ==
  { t \in VerseContainerTags : t.attributes.osisID = RefRom11 }
    \cup DivTags
    \cup { t \in WordTags : DOMAIN t.attributes = {} }

NestTexts == { <<"a"," ","b">> }

NextNest ==
  \/ \E tag \in NestTags : OnOpenTag(tag, MaxNestEvents, MaxNestDepth) /\ UNCHANGED rerunVars
  \/ \E text \in NestTexts : OnText(text, MaxNestEvents) /\ UNCHANGED rerunVars
  \/ OnCloseTag /\ UNCHANGED rerunVars
  \/ EndDocument /\ UNCHANGED rerunVars
  \/ SaveVerse /\ UNCHANGED rerunVars

SpecNest == Init /\ [][NextNest]_vars

(***************************************************************************)
(* The pass run twice over one document                                    *)
(***************************************************************************)
\* verses of two books, a colophon section, word elements with a lemma
RerunTags ==
  { t \in VerseContainerTags : t.attributes.osisID \in {RefRom11, RefGal11} }
    \cup { t \in DivTags : t.attributes.osisID = BookRom \o <<".","c">> }
    \cup { t \in WordTags : "lemma" \in DOMAIN t.attributes }

RerunTexts == { <<"a"," ","b">> }

\* an entry of the log of delivered events
Event(kind, tag, text) == [kind |-> kind, tag |-> tag, text |-> text]
NoTag == Tag("", EmptyObject, FALSE)

FirstOpenTag ==
  \E tag \in RerunTags :
    /\ pass = 1
    /\ tag.name = "w" => InContent
    /\ OnOpenTag(tag, MaxRerunEvents, MaxRerunDepth)
    /\ eventLog' = Append(eventLog, Event("open", tag, <<>>))
    /\ UNCHANGED <<pass, firstVerses, firstFiles>>

FirstText ==
  \E text \in RerunTexts :
    /\ pass = 1
    /\ InContent
    /\ OnText(text, MaxRerunEvents)
    /\ eventLog' = Append(eventLog, Event("text", NoTag, text))
    /\ UNCHANGED <<pass, firstVerses, firstFiles>>

FirstCloseTag ==
  /\ pass = 1
  /\ OnCloseTag
  /\ eventLog' = Append(eventLog, Event("close", NoTag, <<>>))
  /\ UNCHANGED <<pass, firstVerses, firstFiles>>

\* the second pass is handed the events of the first, in their order
ReplayEvent ==
  /\ pass = 2
  /\ nEvents < Len(eventLog)
  /\ LET e == eventLog[nEvents + 1]
     IN  IF e.kind = "open" THEN OnOpenTag(e.tag, MaxRerunEvents, MaxRerunDepth)
         ELSE IF e.kind = "text" THEN OnText(e.text, MaxRerunEvents)
         ELSE OnCloseTag
  /\ UNCHANGED rerunVars

EndOfEvents ==
  /\ pass = 2 => nEvents = Len(eventLog)
  /\ EndDocument
  /\ UNCHANGED rerunVars

\* a slip: verses and colophons are declared outside parseOsis
ParseAgain_SharedResults ==
  /\ pass = 1
  /\ phase = "done"
  /\ pass' = 2
  /\ firstVerses' = verses
  /\ firstFiles' = files
  /\ current' = Null /\ words' = <<>> /\ pos' = 1 /\ noteDepth' = 0
  /\ inColophon' = FALSE /\ colophonBook' = Null /\ colophonWords' = <<>>
  /\ colophonPos' = 1 /\ inWord' = FALSE /\ inTransChange' = FALSE
  /\ wordText' = <<>> /\ wordAttrs' = EmptyObject
  /\ transChangeText' = <<>> /\ transChangeAttrs' = EmptyObject
  /\ openTags' = <<>> /\ nEvents' = 0 /\ afterText' = FALSE
  /\ phase' = "parse"
  /\ saveIdx' = 1
  /\ UNCHANGED <<verses, colophons, files, eventLog, callVars>>

\* main runs again on the same document: parseOsis declares its variables
\* anew, the files of the first pass are on the disk and STRONGS_RE is the
\* same object
ParseAgain ==
  /\ pass = 1
  /\ phase = "done"
  /\ pass' = 2
  /\ firstVerses' = verses
  /\ firstFiles' = files
  /\ verses' = <<>> /\ colophons' = <<>>
  /\ current' = Null /\ words' = <<>> /\ pos' = 1 /\ noteDepth' = 0
  /\ inColophon' = FALSE /\ colophonBook' = Null /\ colophonWords' = <<>>
  /\ colophonPos' = 1 /\ inWord' = FALSE /\ inTransChange' = FALSE
  /\ wordText' = <<>> /\ wordAttrs' = EmptyObject
  /\ transChangeText' = <<>> /\ transChangeAttrs' = EmptyObject
  /\ openTags' = <<>> /\ nEvents' = 0 /\ afterText' = FALSE
  /\ phase' = "parse"
  /\ saveIdx' = 1
  /\ UNCHANGED <<files, eventLog, callVars>>

NextRerun ==
  \/ FirstOpenTag
  \/ FirstText
  \/ FirstCloseTag
  \/ ReplayEvent
  \/ EndOfEvents
  \/ SaveVerse /\ UNCHANGED rerunVars
  \/ ParseAgain

SpecRerun == Init /\ [][NextRerun]_vars

(***************************************************************************)
(* One pass with the log of its events                                     *)
(***************************************************************************)
\* the verse Rom.1.1 as an element and as milestones, word and translator-
\* insertion elements, notes
LogTags ==
  { t \in VerseContainerTags \cup VerseStartTags : t.attributes.osisID = RefRom11 }
    \cup VerseEndTags
    \cup { t \in WordTags : DOMAIN t.attributes = {} }
    \cup TransChangeTags \cup NoteTags

LogTexts == { <<"G","o","d">>, <<"t","h","e">> }

LogOpenTag ==
  \E tag \in LogTags :
    /\ OnOpenTag(tag, MaxLogEvents, MaxLogDepth)
    /\ eventLog' = Append(eventLog, Event("open", tag, <<>>))
    /\ UNCHANGED <<pass, firstVerses, firstFiles>>

LogText ==
  \E text \in LogTexts :
    /\ OnText(text, MaxLogEvents)
    /\ eventLog' = Append(eventLog, Event("text", NoTag, text))
    /\ UNCHANGED <<pass, firstVerses, firstFiles>>

\* the closetag event carries the tag of the element it closes
LogCloseTag ==
  /\ OnCloseTag
  /\ eventLog' = Append(eventLog, Event("close", openTags[Len(openTags)], <<>>))
  /\ UNCHANGED <<pass, firstVerses, firstFiles>>

NextLog ==
  \/ LogOpenTag
  \/ LogText
  \/ LogCloseTag
  \/ EndDocument /\ UNCHANGED rerunVars
  \/ SaveVerse /\ UNCHANGED rerunVars

SpecLog == Init /\ [][NextLog]_vars

(***************************************************************************)
(* Calls of the pure helpers on inputs drawn from bounded sets             *)
(***************************************************************************)
GemFragments ==
  { <<"G","o","d">>, <<"b","e","g","i","n">>, <<"n","i","n","g">>,
    <<"I">>, <<"r">>, <<"Z">>, <<"a">>, <<" ">>, <<".">>, <<"7">> }

StrongsFragments ==
  { <<"s","t","r","o","n","g",":","H","0","0","9","1">>,
    <<"s","t","r","o","n","g","s",":","g","3","4","5">>,
    <<"s","t","r","o","n","g">>, <<":">>,
    <<"H">>, <<"h">>, <<"G">>, <<"x">>, <<" ">>,
    <<"0","0">>, <<"1","2">>, <<"0","0","9","1">>, <<"3","4","5","6">> }

\* the concatenations of at most n fragments
ConcatsOf(frags, n) == { Concat(fs) : fs \in UNION { [1..k -> frags] : k \in 0..n } }

InitGem ==
  /\ ParseInit /\ StreamInit /\ MainInit /\ RerunInit
  /\ gemText \in ConcatsOf(GemFragments, MaxGemFrags)
  /\ gemResult = Null
  /\ strongsValue = Null
  /\ strongsResult = Null
  /\ dirListing = <<>>
  /\ chapterResult = Null
  /\ lastIndex = 0

CallGematria ==
  /\ IsNull(gemResult)
  /\ gemResult' = Some(computeGematria(gemText))
  /\ UNCHANGED <<parseVars, streamVars, mainVars, gemText, strongsValue, strongsResult,
                 dirListing, chapterResult, lastIndex, rerunVars>>

NextGem == CallGematria

SpecGem == InitGem /\ [][NextGem]_vars

InitStrongs ==
  /\ ParseInit /\ StreamInit /\ MainInit /\ RerunInit
  /\ gemText = <<>>
  /\ gemResult = Null
  /\ strongsValue \in {Null} \cup { Some(v) : v \in ConcatsOf(StrongsFragments, MaxStrongsFrags) }
  /\ strongsResult = Null
  /\ dirListing = <<>>
  /\ chapterResult = Null
  /\ lastIndex = 0

CallExtractStrongs ==
  /\ IsNull(strongsResult)
  /\ strongsResult' = Some(extractStrongs(strongsValue))
  /\ UNCHANGED <<parseVars, streamVars, mainVars, gemText, gemResult, strongsValue,
                 dirListing, chapterResult, lastIndex, rerunVars>>

NextStrongs == CallExtractStrongs

SpecStrongs == InitStrongs /\ [][NextStrongs]_vars

\* the entries of a chapter directory: verse files and a file that is none
FileNames ==
  { <<"1",".","j","s","o","n">>, <<"2",".","j","s","o","n">>, <<"3",".","j","s","o","n">>,
    <<"1","0",".","j","s","o","n">>, <<"2","1",".","j","s","o","n">>,
    <<"9",".","t","x","t">> }

\* readdir returns each entry once, in any order
Listings ==
  { l \in UNION { [1..k -> FileNames] : k \in 0..MaxFiles } :
      \A i, j \in 1..Len(l) : i # j => l[i] # l[j] }

InitChapter ==
  /\ ParseInit /\ StreamInit /\ MainInit /\ RerunInit
  /\ gemText = <<>>
  /\ gemResult = Null
  /\ strongsValue = Null
  /\ strongsResult = Null
  /\ dirListing \in Listings
  /\ chapterResult = Null
  /\ lastIndex = 0

CallLoadChapter ==
  /\ IsNull(chapterResult)
  /\ chapterResult' = Some(loadChapter(dirListing))
  /\ UNCHANGED <<parseVars, streamVars, mainVars, gemText, gemResult, strongsValue,
                 strongsResult, dirListing, lastIndex, rerunVars>>

NextChapter == CallLoadChapter

SpecChapter == InitChapter /\ [][NextChapter]_vars

(***************************************************************************)
(* Claims about the saved verse records                                    *)
(***************************************************************************)
GematriaKeys == {"standard", "ordinal", "reduced"}

\* the verses main has saved so far
SavedVerses == 1..(saveIdx - 1)

\* no later saved verse has overwritten the file of verse i
IsLatestSave(i) ==
  \A j \in SavedVerses : j > i => VersePath(verses[j]) # VersePath(verses[i])

\* the record in the file of verse i
FileOfVerse(i) ==
  LET x == CHOOSE x \in 1..Len(files) : files[x].path = VersePath(verses[i])
  IN  files[x].data

\* the sum of one gematria component over the texts of the words
RECURSIVE ComponentSum(_, _)
ComponentSum(ws, key) ==
  IF ws = <<>> THEN 0
  ELSE computeGematria(Head(ws).text)[key] + ComponentSum(Tail(ws), key)

\* the recorded colophons that belong to verse i: those of its book, when i is
\* the last verse of that book
ColophonsOfVerse(i) ==
  { k \in 1..Len(colophons) :
      /\ colophons[k].book = verses[i].book
      /\ \A j \in (i + 1)..Len(verses) : verses[j].book # verses[i].book }

IsFlaggedColophon(jsonWord) ==
  /\ "metadata" \in DOMAIN jsonWord
  /\ "colophon" \in DOMAIN jsonWord["metadata"]
  /\ jsonWord["metadata"]["colophon"] = TRUE

\* C1: in every saved verse record each component of the gematria total is
\* the sum of that component over the body words of the verse only, and the
\* total is the one the same verse gets without its colophon.
C1_TotalExcludesColophon ==
  \A i \in SavedVerses :
    IsLatestSave(i) =>
      LET data == FileOfVerse(i)
          body == verses[i].words
      IN  /\ \A key \in DOMAIN data["gematria"] :
                data["gematria"][key] = ComponentSum(body, key)
          /\ (body # <<>> => DOMAIN data["gematria"] = GematriaKeys)
          /\ data["gematria"]
               = VerseData([verses[i] EXCEPT !.colophonWords = Null])["gematria"]

C1_Witness ==
  \E i \in SavedVerses :
    /\ IsLatestSave(i)
    /\ verses[i].words # <<>>
    /\ HasColophonWords(verses[i])
    /\ ComponentSum(ValueOf(verses[i].colophonWords), "standard") > 0
    /\ FileOfVerse(i)["gematria"]["standard"] = ComponentSum(verses[i].words, "standard")

\* positions 1, 2, ..., n in sequence order
IsNumberedFromOne(ws) == \A k \in 1..Len(ws) : ws[k].position = k

\* C2: in every finalized verse the body words carry the positions 1, 2, ..., n
\* in sequence order, whatever mix of word-tag, translator-insertion and
\* tail-text words it holds; the three kinds share one counter, which always
\* stands one past the words buffered since the last accepted verse start.
C2_BodyPositionsContiguous ==
  /\ \A i \in 1..Len(verses) : IsNumberedFromOne(verses[i].words)
  /\ IsNumberedFromOne(words)
  /\ pos = Len(words) + 1

C2_Witness ==
  \E i \in 1..Len(verses) :
    LET ws == verses[i].words
    IN  /\ \E k \in 1..Len(ws) : ~IsNull(ws[k].lemma)
        /\ \E k \in 1..Len(ws) : "type" \in DOMAIN ws[k].metadata
        /\ \E k \in 1..Len(ws) : IsNull(ws[k].lemma) /\ DOMAIN ws[k].metadata = {}
        /\ IsNumberedFromOne(ws)

\* C3: after the post-pass, a colophon of m words attached to a verse with n
\* body words carries the positions n+1 .. n+m in its original order; the
\* saved word sequence is the body words followed by the colophon words, with
\* positions 1 .. n+m, and the saved colophon_word_range is [n+1, n+m].
C3_ColophonContinuesPositions ==
  phase \in {"save", "done"} =>
    \A i \in 1..Len(verses) :
      HasColophonWords(verses[i]) =>
        LET body == verses[i].words
            cw   == ValueOf(verses[i].colophonWords)
            n    == Len(body)
            m    == Len(cw)
        IN  /\ \A j \in 1..m : cw[j].position = n + j
            /\ \E k \in 1..Len(colophons) :
                 /\ Len(colophons[k].words) = m
                 /\ \A j \in 1..m : colophons[k].words[j].text = cw[j].text
            /\ (i \in SavedVerses /\ IsLatestSave(i)) =>
                 LET data == FileOfVerse(i)
                 IN  /\ Len(data["words"]) = n + m
                     /\ \A j \in 1..(n + m) : data["words"][j]["position"] = j
                     /\ \A j \in 1..n : data["words"][j]["text"] = body[j].text
                     /\ \A j \in 1..m : data["words"][n + j]["text"] = cw[j].text
                     /\ data["metadata"]["colophon_word_range"] = <<n + 1, n + m>>

C3_Witness ==
  \E i \in SavedVerses :
    /\ IsLatestSave(i)
    /\ HasColophonWords(verses[i])
    /\ Len(verses[i].words) >= 2
    /\ Len(ValueOf(verses[i].colophonWords)) >= 2
    /\ FileOfVerse(i)["metadata"]["colophon_word_range"]
         = <<Len(verses[i].words) + 1,
             Len(verses[i].words) + Len(ValueOf(verses[i].colophonWords))>>

\* the number of words of the colophons in the set
RECURSIVE ColophonWordCount(_)
ColophonWordCount(ks) ==
  IF ks = {} THEN 0
  ELSE LET k == CHOOSE k \in ks : TRUE
       IN  Len(colophons[k].words) + ColophonWordCount(ks \ {k})

\* C4: after the whole stream, the words of every recorded colophon whose book
\* has a parsed verse are in the saved word sequence of the last parsed verse
\* of that book, also when several colophons were recorded for the book.
C4_EveryColophonSaved ==
  phase = "done" =>
    \A i \in 1..Len(verses) :
      IsLatestSave(i) =>
        Len(FileOfVerse(i)["words"])
          = Len(verses[i].words) + ColophonWordCount(ColophonsOfVerse(i))

\* C5: a saved verse record has a metadata object exactly when a colophon
\* (which always has a word) was attached to the verse; the object then has
\* has_colophon = true, colophon_type = "subscription" and a word range.
C5_MetadataIffColophon ==
  \A i \in SavedVerses :
    IsLatestSave(i) =>
      LET data == FileOfVerse(i)
      IN  /\ "metadata" \in DOMAIN data <=> ColophonsOfVerse(i) # {}
          /\ "metadata" \in DOMAIN data =>
               /\ DOMAIN data["metadata"]
                    = {"has_colophon", "colophon_type", "colophon_word_range"}
               /\ data["metadata"]["has_colophon"] = TRUE
               /\ data["metadata"]["colophon_type"] = "subscription"
               /\ Len(data["metadata"]["colophon_word_range"]) = 2
               /\ \A k \in ColophonsOfVerse(i) : Len(colophons[k].words) >= 1

C5_Witness ==
  /\ phase = "done"
  /\ \E i \in SavedVerses : IsLatestSave(i) /\ "metadata" \in DOMAIN FileOfVerse(i)
  /\ \E i \in SavedVerses : IsLatestSave(i) /\ "metadata" \notin DOMAIN FileOfVerse(i)

\* C6: in every saved verse record a word carries the colophon flag exactly
\* when its position lies in the colophon_word_range of the record; a record
\* without colophon metadata has no flagged word; the first flagged word is
\* the first word of the attached colophon, the first word parsed inside its
\* container.
C6_FlagIffInRange ==
  \A i \in SavedVerses :
    IsLatestSave(i) =>
      LET data  == FileOfVerse(i)
          ws    == data["words"]
          InRange(p) ==
            /\ "metadata" \in DOMAIN data
            /\ data["metadata"]["colophon_word_range"][1] <= p
            /\ p <= data["metadata"]["colophon_word_range"][2]
          flagged == { j \in 1..Len(ws) : IsFlaggedColophon(ws[j]) }
      IN  /\ \A j \in 1..Len(ws) : IsFlaggedColophon(ws[j]) <=> InRange(ws[j]["position"])
          /\ "metadata" \notin DOMAIN data => flagged = {}
          /\ flagged # {} =>
               LET first == CHOOSE j \in flagged : \A h \in flagged : j <= h
                   last  == CHOOSE k \in ColophonsOfVerse(i) :
                              \A h \in ColophonsOfVerse(i) : h <= k
               IN  /\ ColophonsOfVerse(i) # {}
                   /\ ws[first]["text"] = colophons[last].words[1].text
                   /\ ws[first]["metadata"]["colophon_type"] = "subscription"

C6_Witness ==
  \E i \in SavedVerses :
    /\ IsLatestSave(i)
    /\ \E j \in 1..Len(FileOfVerse(i)["words"]) : IsFlaggedColophon(FileOfVerse(i)["words"][j])
    /\ \E j \in 1..Len(FileOfVerse(i)["words"]) : ~IsFlaggedColophon(FileOfVerse(i)["words"][j])

(***************************************************************************)
(* Claims about computeGematria                                            *)
(***************************************************************************)
\* the 1-based position of a letter in the alphabet, whatever its case; 0 for
\* any other character
AlphabetPosition(c) ==
  IF \E i \in 1..26 : c = UpperLetters[i] \/ c = LowerLetters[i]
    THEN CHOOSE i \in 1..26 : c = UpperLetters[i] \/ c = LowerLetters[i]
    ELSE 0

\* the sum of the alphabet positions of the characters of s
RECURSIVE AlphabetPositionSum(_)
AlphabetPositionSum(s) ==
  IF s = <<>> THEN 0 ELSE AlphabetPosition(Head(s)) + AlphabetPositionSum(Tail(s))

\* the sum over the letters of s of ((v - 1) mod 9) + 1, v the alphabet position
RECURSIVE DigitalRootSum(_)
DigitalRootSum(s) ==
  IF s = <<>> THEN 0
  ELSE (IF AlphabetPosition(Head(s)) = 0 THEN 0
        ELSE ((AlphabetPosition(Head(s)) - 1) % 9) + 1)
       + DigitalRootSum(Tail(s))

TextGod == <<"G","o","d">>
TextBeginning == <<"b","e","g","i","n","n","i","n","g">>

\* C7: for the token "God", computeGematria returns standard = 26,
\* ordinal = 26 and reduced = 8.
C7_GodGematria ==
  (gemText = TextGod /\ ~IsNull(gemResult))
    => ValueOf(gemResult) = [standard |-> 26, ordinal |-> 26, reduced |-> 8]

\* C8: for every input text, standard = ordinal = the sum of the alphabet
\* positions (A=1 .. Z=26) of its letters taken without regard to case and to
\* where a letter stands in the word; other characters contribute 0; in
\* particular "beginning" gives ordinal 81.
C8_StandardEqualsOrdinal ==
  ~IsNull(gemResult) =>
    /\ ValueOf(gemResult).standard = AlphabetPositionSum(gemText)
    /\ ValueOf(gemResult).ordinal = AlphabetPositionSum(gemText)
    /\ (gemText = TextBeginning => ValueOf(gemResult).ordinal = 81)

C8_Witness ==
  /\ gemText = TextBeginning
  /\ ~IsNull(gemResult)
  /\ ValueOf(gemResult).ordinal = 81

RECURSIVE DecimalValue(_)
DecimalValue(ds) ==
  IF ds = <<>> THEN 0
  ELSE (CHOOSE d \in 0..9 : DigitChars[d + 1] = Head(ds)) * (10 ^ (Len(ds) - 1))
       + DecimalValue(Tail(ds))

\* the digits of a matched token: the token without its prefix letter
TokenDigits(token) == IF IsDigit(token[1]) THEN token ELSE Tail(token)

\* code is the normal form of the matched token
IsNormalFormOf(code, token) ==
  LET digits == Tail(code)
  IN  /\ Len(code) >= 2
      /\ code[1] \in {"H", "G"}
      /\ code[1] = (IF token[1] \in {"H", "h"} THEN "H"
                    ELSE IF token[1] \in {"G", "g"} THEN "G"
                    ELSE "H")
      /\ \A i \in 1..Len(digits) : IsDigit(digits[i])
      /\ (digits[1] = "0" => Len(digits) = 1)
      /\ DecimalValue(digits) = DecimalValue(TokenDigits(token))

StrongH0091 == <<"s","t","r","o","n","g",":","H","0","0","9","1">>

\* C10: every code returned by extractStrongs is an uppercase prefix H or G
\* followed by the matched digit run as a base-10 integer without leading
\* zeros; a lower-case prefix is uppercased, a match without a prefix gets H,
\* and strong:H0091 yields H91.
C10_CodesAreNormalized ==
  (~IsNull(strongsResult) /\ ~IsNull(strongsValue)) =>
    LET codes  == ValueOf(strongsResult)
        tokens == StrongsExec(ValueOf(strongsValue), 1)
    IN  /\ Len(codes) = Len(tokens)
        /\ \A k \in 1..Len(codes) : IsNormalFormOf(codes[k], tokens[k])
        /\ (ValueOf(strongsValue) = StrongH0091 => codes = << <<"H","9","1">> >>)

C10_Witness ==
  /\ strongsValue = Some(StrongH0091 \o <<" ">>
                         \o <<"s","t","r","o","n","g","s",":","g","3","4","5">>)
  /\ strongsResult = Some(<< <<"H","9","1">>, <<"G","3","4","5">> >>)

\* the maximal runs of decimal digits of s from index i on, left to right:
\* where each starts and how long it is
RECURSIVE DigitRunsFrom(_, _)
DigitRunsFrom(s, i) ==
  IF i > Len(s) THEN <<>>
  ELSE IF IsDigit(s[i])
    THEN LET n == DigitRunLen(SubSeq(s, i, Len(s)))
         IN  <<[at |-> i, len |-> n]>> \o DigitRunsFrom(s, i + n)
    ELSE DigitRunsFrom(s, i + 1)

\* the code the pattern yields for a run of three to five digits: the letter
\* H or G written right before the run, H when there is none, then the number
ExpectedCode(s, run) ==
  LET letter == IF run.at > 1 /\ s[run.at - 1] \in {"H", "h"} THEN "H"
                ELSE IF run.at > 1 /\ s[run.at - 1] \in {"G", "g"} THEN "G"
                ELSE "H"
  IN  <<letter>> \o NumToString(DecimalValue(SubSeq(s, run.at, run.at + run.len - 1)))

\* the codes of the runs of three to five digits, left to right
ExpectedCodes(s) ==
  LET runs == SelectSeq(DigitRunsFrom(s, 1), LAMBDA r : r.len >= 3)
  IN  [k \in 1..Len(runs) |-> ExpectedCode(s, runs[k])]

\* the codes of the white-space separated parts, one part after the other
RECURSIVE CodesOfParts(_)
CodesOfParts(parts) ==
  IF parts = <<>> THEN <<>>
  ELSE extractStrongs(Some(Head(parts))) \o CodesOfParts(Tail(parts))

TwiceH0091 == StrongH0091 \o <<" ">> \o StrongH0091

\* C11: extractStrongs returns the empty sequence for null and for the empty
\* string; otherwise it returns the codes of the matches from left to right,
\* a repeated code as often as it is matched: when no digit run is longer than
\* five, one code for every run of three to five digits; for every value, the
\* codes of its white-space separated parts one part after the other.
C11_OneCodePerMatchInOrder ==
  ~IsNull(strongsResult) =>
    LET codes == ValueOf(strongsResult)
    IN  /\ (IsNull(strongsValue) \/ strongsValue = Some(<<>>)) => codes = <<>>
        /\ ~IsNull(strongsValue) =>
              LET value == ValueOf(strongsValue)
                  runs  == DigitRunsFrom(value, 1)
              IN  /\ (\A k \in 1..Len(runs) : runs[k].len <= 5)
                        => codes = ExpectedCodes(value)
                  /\ codes = CodesOfParts(SplitWords(value))
                  /\ (value = TwiceH0091 => codes = << <<"H","9","1">>, <<"H","9","1">> >>)

C11_Witness ==
  /\ strongsValue = Some(TwiceH0091)
  /\ strongsResult = Some(<< <<"H","9","1">>, <<"H","9","1">> >>)

(***************************************************************************)
(* Claims about the segmentation of a verse into words                     *)
(***************************************************************************)
\* the element the next closetag event closes
TopTag == openTags[Len(openTags)]

\* the next closetag event closes a translator insertion the handler finishes
ClosesTransChange ==
  /\ phase = "parse"
  /\ openTags # <<>>
  /\ Len(openTags') = Len(openTags) - 1
  /\ TopTag.name = "transChange" /\ inTransChange /\ Active /\ noteDepth = 0

\* the buffer the handlers push to and its counter, inside and outside a colophon
TargetWords == IF inColophon THEN colophonWords ELSE words
TargetPos == IF inColophon THEN colophonPos ELSE pos

\* C12: when a translator-insertion element closes with content of k >= 2
\* white-space separated tokens, k words are pushed, one per token, and the
\* position counter advances by k.
C12_TransChangeSplits ==
  [][ ClosesTransChange =>
        LET tokens == SplitWords(transChangeText)
            k      == Len(tokens)
        IN  k >= 2 =>
              /\ Len(TargetWords') = Len(TargetWords) + k
              /\ TargetPos' = TargetPos + k
              /\ \A j \in 1..k : TargetWords'[Len(TargetWords) + j].text = tokens[j]
    ]_vars

\* the keys every word parsed inside a colophon gets
ColophonKeys == {"colophon", "colophon_type"}

\* C13: every word pushed when a translator-insertion element closes has no
\* lemma, no morphology and no Strong's codes, and its metadata marks it as a
\* translator insertion (it has a key besides those of the colophon flag),
\* whatever attributes the element has.
C13_TransChangeFlagged ==
  [][ ClosesTransChange =>
        \A j \in (Len(TargetWords) + 1)..Len(TargetWords') :
          LET w == TargetWords'[j]
          IN  /\ IsNull(w.lemma) /\ IsNull(w.morph) /\ IsNull(w.strongs)
              /\ DOMAIN w.metadata \ ColophonKeys # {}
    ]_vars

\* the next closetag event closes a word element the handler finishes
ClosesWord ==
  /\ phase = "parse"
  /\ openTags # <<>>
  /\ Len(openTags') = Len(openTags) - 1
  /\ TopTag.name = "w" /\ inWord /\ Active /\ noteDepth = 0

\* the attribute of the word element being collected, null when it is absent
\* or empty
WordAttrOrNull(key) ==
  IF key \in DOMAIN wordAttrs /\ wordAttrs[key] # <<>> THEN Some(wordAttrs[key]) ELSE Null

\* C14: when a word element closes inside an open verse or colophon at note
\* depth 0, its accumulated text without slashes splits on white space into
\* k tokens and exactly k words are pushed after the buffered ones, with the
\* tokens as texts, consecutive positions from the counter on, and the same
\* lemma, morphology, Strong's codes and extra attributes; the counter
\* advances by k, so that blank text pushes nothing and consumes no position.
C14_WordElementSplits ==
  [][ ClosesWord =>
        LET tokens == SplitWords(RemoveSlashes(wordText))
            k      == Len(tokens)
            n      == Len(TargetWords)
            lemma  == WordAttrOrNull("lemma")
            codes  == IF IsNull(lemma) THEN <<>> ELSE ExpectedCodes(ValueOf(lemma))
            extra  == (DOMAIN wordAttrs) \ {"lemma", "morph"}
        IN  /\ Len(TargetWords') = n + k
            /\ TargetPos' = TargetPos + k
            /\ \A j \in 1..n : TargetWords'[j] = TargetWords[j]
            /\ \A j \in 1..k :
                 LET w == TargetWords'[n + j]
                 IN  /\ w.text = tokens[j]
                     /\ w.position = TargetPos + j - 1
                     /\ w.lemma = lemma
                     /\ w.morph = WordAttrOrNull("morph")
                     /\ w.strongs = (IF codes = <<>> THEN Null ELSE Some(codes))
                     /\ DOMAIN w.metadata
                          = extra \cup (IF inColophon THEN ColophonKeys ELSE {})
                     /\ \A a \in extra : w.metadata[a] = wordAttrs[a]
            /\ inColophon => (words' = words /\ pos' = pos)
            /\ ~inColophon => (colophonWords' = colophonWords /\ colophonPos' = colophonPos)
    ]_vars

\* a verse holds the two words of <w lemma=".." morph="..">a b</w>
C14_Witness ==
  \E j \in 1..(Len(words) - 1) :
    /\ words[j].text = <<"a">> /\ words[j + 1].text = <<"b">>
    /\ words[j].lemma = Some(LemmaH0430) /\ words[j + 1].lemma = Some(LemmaH0430)
    /\ words[j].strongs = Some(<< <<"H","4","3","0">> >>)
    /\ words[j + 1].position = words[j].position + 1

\* the next event delivers character data
DeliversText ==
  /\ phase = "parse"
  /\ openTags' = openTags
  /\ nEvents' = nEvents + 1

\* the character data of the next event stands inside a note element
InsideNote == \E d \in 1..Len(openTags) : openTags[d].name = "note"

\* C15: character data between the open and the close of a note element is
\* never captured: the event changes no word buffer and no text buffer,
\* whatever was active when the note opened, also when notes nest.
C15_NoteTextNeverCaptured ==
  [][ (DeliversText /\ InsideNote) =>
        UNCHANGED <<words, colophonWords, wordText, transChangeText, verses>>
    ]_vars

\* the tokens of tail text that are not punctuation alone
WordTokens(text) == SelectSeq(SplitWords(RemoveSlashes(text)), LAMBDA t : ~IsPunctOnly(t))

\* the buffer ws grew by one word without lexical reference for each token,
\* numbered from p on
GrewByTailWords(ws, wsAfter, tokens, p) ==
  /\ Len(wsAfter) = Len(ws) + Len(tokens)
  /\ \A j \in 1..Len(ws) : wsAfter[j] = ws[j]
  /\ \A j \in 1..Len(tokens) :
       LET w == wsAfter[Len(ws) + j]
       IN  /\ w.text = tokens[j]
           /\ w.position = p + j - 1
           /\ IsNull(w.lemma) /\ IsNull(w.morph) /\ IsNull(w.strongs)

\* C16: character data that arrives outside any word and translator-insertion
\* element, at note depth 0, while a colophon is active and no verse is open,
\* is tail text: each of its tokens that is not punctuation alone becomes a
\* colophon word without lexical reference and consumes one colophon position.
C16_ColophonTailText ==
  [][ (/\ DeliversText
       /\ noteDepth = 0 /\ ~inWord /\ ~inTransChange
       /\ inColophon /\ IsNull(current)) =>
        \E text \in DocTexts :
          /\ GrewByTailWords(colophonWords, colophonWords', WordTokens(text), colophonPos)
          /\ colophonPos' = colophonPos + Len(WordTokens(text))
    ]_vars

\* the next event delivers character data that the handler takes as the tail
\* text of an open verse
DeliversTailText ==
  /\ DeliversText
  /\ noteDepth = 0 /\ ~inWord /\ ~inTransChange
  /\ ~IsNull(current)

\* t is s followed by punctuation characters only
IsPunctExtension(s, t) ==
  /\ Len(t) >= Len(s)
  /\ SubSeq(t, 1, Len(s)) = s
  /\ \A i \in (Len(s) + 1)..Len(t) : IsPunct(t[i])

\* C17: a tail-text token made of the punctuation characters . , ; : ! ? only
\* is appended to the text of the preceding buffered word: no word pushed by
\* tail text is punctuation alone, the counter advances by the words pushed,
\* and the words buffered before keep their position and get punctuation
\* appended at most; this also when the token is the first of the verse.
C17_PunctuationNeverAWord ==
  [][ DeliversTailText =>
        /\ Len(words') >= Len(words)
        /\ pos' - pos = Len(words') - Len(words)
        /\ \A j \in (Len(words) + 1)..Len(words') : ~IsPunctOnly(words'[j].text)
        /\ \A j \in 1..Len(words) :
             /\ words'[j].position = words[j].position
             /\ IsPunctExtension(words[j].text, words'[j].text)
    ]_vars

(***************************************************************************)
(* Claims about the text of a verse                                        *)
(***************************************************************************)
\* the texts of the words with one space between neighbours
RECURSIVE SpaceJoined(_)
SpaceJoined(ws) ==
  IF ws = <<>> THEN <<>>
  ELSE IF Len(ws) = 1 THEN ws[1].text
  ELSE SpaceJoined(SubSeq(ws, 1, Len(ws) - 1)) \o <<" ">> \o ws[Len(ws)].text

\* the character at i belongs to a white-space run that immediately precedes
\* a punctuation character
IsSpaceBeforePunct(s, i) ==
  /\ IsSpace(s[i])
  /\ \E m \in (i + 1)..Len(s) :
       /\ IsPunct(s[m])
       /\ \A h \in i..(m - 1) : IsSpace(s[h])

\* s without the characters at the indices in drop
RECURSIVE WithoutIndices(_, _)
WithoutIndices(s, drop) ==
  IF s = <<>> THEN <<>>
  ELSE WithoutIndices(SubSeq(s, 1, Len(s) - 1), drop)
         \o (IF Len(s) \in drop THEN <<>> ELSE <<s[Len(s)]>>)

\* C18: the text of every finalized verse is its body word texts joined by
\* single spaces without the white-space runs that immediately precede one of
\* , . ; : ! ?, and so it has no white-space character immediately followed
\* by one of those characters.
C18_TextJoinedAndCollapsed ==
  \A i \in 1..Len(verses) :
    LET joined == SpaceJoined(verses[i].words)
        text   == verses[i].text
    IN  /\ text = WithoutIndices(joined,
                     { k \in 1..Len(joined) : IsSpaceBeforePunct(joined, k) })
        /\ \A k \in 1..(Len(text) - 1) : ~(IsSpace(text[k]) /\ IsPunct(text[k + 1]))

\* a finalized verse of several words whose text lost a space before punctuation
C18_Witness ==
  \E i \in 1..Len(verses) :
    /\ Len(verses[i].words) >= 3
    /\ Len(verses[i].text) < Len(SpaceJoined(verses[i].words))
    /\ \E k \in 1..Len(verses[i].text) : IsSpace(verses[i].text[k])

\* the entries of a saved record that do not carry the colophon flag
UnflaggedWords(data) == SelectSeq(data["words"], LAMBDA w : ~IsFlaggedColophon(w))

\* the white-space separated tokens of the texts of the entries, in order
RECURSIVE TokensOfWords(_)
TokensOfWords(ws) ==
  IF ws = <<>> THEN <<>>
  ELSE SplitWords(Head(ws)["text"]) \o TokensOfWords(Tail(ws))

\* the tokens after the first that begin with a punctuation character
ReattachedTokens(tokens) == { j \in 2..Len(tokens) : IsPunct(tokens[j][1]) }

OpensVerseStart ==
  /\ phase = "parse"
  /\ Len(openTags') = Len(openTags) + 1
  /\ openTags'[Len(openTags')].name = "verse"
  /\ "osisID" \in DOMAIN openTags'[Len(openTags')].attributes

\* the book, chapter and number a verse reference names
IdentityOf(ref) ==
  IF ref = RefRom11 THEN [book |-> BookRom, chapter |-> 1, number |-> 1]
  ELSE IF ref = RefRom12 THEN [book |-> BookRom, chapter |-> 1, number |-> 2]
  ELSE [book |-> BookGal, chapter |-> 1, number |-> 1]

\* C20: a verse-start marker is accepted only when no verse is open; accepted
\* (its reference has the three parts book.chapter.number), it records book,
\* chapter and number, empties the word buffer and sets the position counter
\* to 1; arriving while a verse is open it leaves the verse identity, the
\* buffered words and the counter unchanged.
C20_VerseStartOnlyWhenClosed ==
  [][ OpensVerseStart =>
        LET ref  == openTags'[Len(openTags')].attributes.osisID
            dots == Cardinality({ k \in 1..Len(ref) : ref[k] = "." })
        IN  /\ ~IsNull(current) => UNCHANGED <<current, words, pos>>
            /\ (IsNull(current) /\ dots = 2) =>
                 /\ current' = Some(IdentityOf(ref))
                 /\ words' = <<>>
                 /\ pos' = 1
            /\ (IsNull(current) /\ dots # 2) => UNCHANGED <<current, words, pos>>
    ]_vars

\* a verse-start marker for Rom.1.2 arrived while Rom.1.1 was open with a word
\* buffered, and Rom.1.1 is still the open verse
C20_Witness ==
  /\ openTags # <<>>
  /\ TopTag.name = "verse"
  /\ "osisID" \in DOMAIN TopTag.attributes
  /\ TopTag.attributes.osisID = RefRom12
  /\ current = Some(IdentityOf(RefRom11))
  /\ Len(words) >= 1
  /\ pos = Len(words) + 1

\* the element is a verse-end marker: it carries an end-id, or a verse
\* reference and no start-id
IsVerseEndTag(tag) ==
  /\ tag.name = "verse"
  /\ \/ "eID" \in DOMAIN tag.attributes
     \/ ("osisID" \in DOMAIN tag.attributes /\ "sID" \notin DOMAIN tag.attributes)

\* the next event is the closetag of a verse-end marker
ClosesVerseEnd ==
  /\ phase = "parse"
  /\ openTags # <<>>
  /\ Len(openTags') = Len(openTags) - 1
  /\ IsVerseEndTag(TopTag)

\* the next event is the opentag of an end milestone <verse eID=".."/>
OpensVerseEndMilestone ==
  /\ phase = "parse"
  /\ Len(openTags') = Len(openTags) + 1
  /\ openTags'[Len(openTags')].name = "verse"
  /\ "eID" \in DOMAIN openTags'[Len(openTags')].attributes
  /\ "osisID" \notin DOMAIN openTags'[Len(openTags')].attributes

\* C21: a verse-end marker that arrives when no verse is open is a no-op: no
\* verse record is added and no variable of the parse changes (buffers,
\* counters, colophon state, note depth).
C21_VerseEndWhenClosedIsNoOp ==
  [][ /\ (ClosesVerseEnd /\ IsNull(current)) => UNCHANGED parseVars
      /\ (OpensVerseEndMilestone /\ IsNull(current)) => UNCHANGED parseVars
    ]_vars

\* an end marker is about to close with no verse open, after one verse was
\* finalized with a word in the buffer
C21_Witness ==
  /\ openTags # <<>>
  /\ IsVerseEndTag(TopTag)
  /\ "eID" \in DOMAIN TopTag.attributes
  /\ IsNull(current)
  /\ Len(verses) = 1
  /\ Len(words) >= 1

\* the next event is the closetag of a start milestone: a verse element with a
\* verse reference and a start-id
ClosesVerseStartMilestone ==
  /\ phase = "parse"
  /\ openTags # <<>>
  /\ Len(openTags') = Len(openTags) - 1
  /\ TopTag.name = "verse"
  /\ "osisID" \in DOMAIN TopTag.attributes
  /\ "sID" \in DOMAIN TopTag.attributes

\* C22: a verse-end marker that closes while a verse is open adds exactly one
\* verse record after the earlier ones, with the identity of the open verse
\* and the words buffered since its start, and leaves no verse open; the close
\* of a start milestone ends no verse; during the parse a record is added by
\* nothing else and a verse is opened by a verse start only, so that the
\* records are in the order the verses ended, one per accepted start and end.
C22_OneRecordPerStartEndPair ==
  [][ phase = "parse" =>
        /\ (ClosesVerseEnd /\ ~IsNull(current)) =>
              /\ Len(verses') = Len(verses) + 1
              /\ \A i \in 1..Len(verses) : verses'[i] = verses[i]
              /\ verses'[Len(verses')].book = ValueOf(current).book
              /\ verses'[Len(verses')].chapter = ValueOf(current).chapter
              /\ verses'[Len(verses')].number = ValueOf(current).number
              /\ verses'[Len(verses')].words = words
              /\ IsNull(current')
        /\ ClosesVerseStartMilestone => UNCHANGED <<verses, current>>
        /\ (phase' = "parse" /\ verses' # verses) => (ClosesVerseEnd /\ ~IsNull(current))
        /\ (IsNull(current) /\ ~IsNull(current')) => (OpensVerseStart /\ words' = <<>>)
        /\ (~IsNull(current) /\ current' # current) => ClosesVerseEnd
    ]_vars

\* two verses were started and ended, each with a word, and none is open
C22_Witness ==
  /\ phase = "parse"
  /\ Len(verses) = 2
  /\ verses[1].words # <<>> /\ verses[2].words # <<>>
  /\ <<verses[1].book, verses[1].number>> # <<verses[2].book, verses[2].number>>
  /\ IsNull(current)

(***************************************************************************)
(* Claims about the colophons and the order of the pass                    *)
(***************************************************************************)
\* the next event is the closetag of a div element
ClosesDiv ==
  /\ phase = "parse"
  /\ openTags # <<>>
  /\ Len(openTags') = Len(openTags) - 1
  /\ TopTag.name = "div"

\* every recorded colophon has a word, the colophon words a verse holds are
\* those of a recorded colophon of its book, and a saved record has colophon
\* metadata or flagged words only for a verse that holds colophon words
ColophonWordsAreRecorded ==
  /\ \A k \in 1..Len(colophons) : Len(colophons[k].words) >= 1
  /\ \A i \in 1..Len(verses) :
       ~IsNull(verses[i].colophonWords) =>
         \E k \in 1..Len(colophons) :
           /\ colophons[k].book = verses[i].book
           /\ colophons[k].words = ValueOf(verses[i].colophonWords)
  /\ \A i \in SavedVerses :
       (IsLatestSave(i) /\ IsNull(verses[i].colophonWords)) =>
         /\ "metadata" \notin DOMAIN FileOfVerse(i)
         /\ UnflaggedWords(FileOfVerse(i)) = FileOfVerse(i)["words"]

\* C23: a colophon container that closes with no buffered word records no
\* colophon; every recorded colophon has a word, the colophon words a verse
\* holds are those of a recorded colophon of its book, and a saved record has
\* colophon metadata or flagged words only for such a verse.
C23_EmptyColophonNotRecorded ==
  [][ /\ (ClosesDiv /\ inColophon /\ colophonWords = <<>>) => colophons' = colophons
      /\ ColophonWordsAreRecorded
      /\ phase \in {"parse", "save"} => ColophonWordsAreRecorded'
    ]_vars

\* a colophon container of Romans is about to close without a word, after a
\* verse of Romans was finalized
C23_Witness ==
  /\ openTags # <<>>
  /\ TopTag.name = "div"
  /\ inColophon
  /\ colophonBook = Some(BookRom)
  /\ colophonWords = <<>>
  /\ \E i \in 1..Len(verses) : verses[i].book = BookRom /\ verses[i].words # <<>>

\* the step at which the stream ends and parseOsis returns
EndsDocument == phase = "parse" /\ phase' # "parse"

\* no recorded colophon is of the book of verse i
HasNoColophon(i) == \A k \in 1..Len(colophons) : colophons[k].book # verses[i].book

\* after a step of the saving loop, the record of every verse whose book has
\* no recorded colophon has no colophon metadata, no flagged word, and the
\* total of its body words
UnattachedRecordsArePlain ==
  \A i \in 1..saveIdx :
    (IsLatestSave(i)' /\ HasNoColophon(i)) =>
      /\ "metadata" \notin DOMAIN FileOfVerse(i)'
      /\ Len(FileOfVerse(i)'["words"]) = Len(verses[i].words)
      /\ UnflaggedWords(FileOfVerse(i))' = FileOfVerse(i)'["words"]
      /\ \A key \in DOMAIN FileOfVerse(i)'["gematria"] :
           FileOfVerse(i)'["gematria"][key] = ComponentSum(verses[i].words, key)

\* C24: a recorded colophon whose book has no parsed verse is dropped and the
\* pass goes on: parseOsis returns all the verses, the pass continues to the
\* saving, and a verse whose book has no colophon is returned as it was
\* finalized, without colophon words, and saved without colophon metadata,
\* flagged words or a changed gematria total.
C24_UnattachableColophonDropped ==
  [][ /\ EndsDocument =>
            /\ Len(verses') = Len(verses)
            /\ phase' = (IF Len(verses) = 0 THEN "exit" ELSE "save")
            /\ \A i \in 1..Len(verses) :
                 /\ verses'[i].words = verses[i].words
                 /\ verses'[i].text = verses[i].text
                 /\ HasNoColophon(i) =>
                      (verses'[i] = verses[i] /\ IsNull(verses'[i].colophonWords))
      /\ phase = "save" => UnattachedRecordsArePlain
    ]_vars

\* the pass is done, a recorded colophon had no verse of its book, and a verse
\* of another book was saved
C24_Witness ==
  /\ phase = "done"
  /\ \E k \in 1..Len(colophons) :
       \A i \in 1..Len(verses) : verses[i].book # colophons[k].book
  /\ \E i \in SavedVerses : verses[i].words # <<>> /\ IsNull(verses[i].colophonWords)

\* C25: when the verse milestones are inconsistent (a verse start arrives
\* while a verse is open, or a verse is open when the stream ends) the pass
\* fails: it ends at once with an error and saves no verse record.
C25_InconsistentMilestonesFail ==
  [][ /\ (OpensVerseStart /\ ~IsNull(current)) => (phase' = "exit" /\ files' = <<>>)
      /\ (EndsDocument /\ ~IsNull(current)) => (phase' = "exit" /\ files' = <<>>)
      /\ (phase = "save" /\ ~IsNull(current)) => files' = <<>>
    ]_vars

\* C26: while the event stream is being consumed no verse holds colophon
\* words and no record is saved; when a record is saved, every recorded
\* colophon whose book has a verse is attached to the last verse of its book.
C26_ParseThenAttachThenSave ==
  /\ phase = "parse" =>
       /\ files = <<>>
       /\ \A i \in 1..Len(verses) : IsNull(verses[i].colophonWords)
  /\ files # <<>> =>
       /\ phase \in {"save", "done"}
       /\ \A k \in 1..Len(colophons) :
            LastVerseOf(verses, colophons[k].book) # 0 =>
              HasColophonWords(verses[LastVerseOf(verses, colophons[k].book)])

\* the stream is still being consumed, a colophon of Romans is recorded and a
\* verse of Romans is finalized
C26_Witness ==
  /\ phase = "parse"
  /\ \E k \in 1..Len(colophons) : \E i \in 1..Len(verses) :
       /\ colophons[k].book = verses[i].book
       /\ verses[i].words # <<>>
       /\ IsNull(verses[i].colophonWords)

(***************************************************************************)
(* Claims about the fields of the saved records                            *)
(***************************************************************************)
\* C27: in every saved word entry an optional field that is empty is left
\* out: lemma and morphology are never null, the Strong's codes never an
\* empty list, the metadata never an empty object nor a colophon flag that
\* is not set.
C27_EmptyOptionalFieldsOmitted ==
  \A i \in SavedVerses :
    IsLatestSave(i) =>
      \A j \in 1..Len(FileOfVerse(i)["words"]) :
        LET w == FileOfVerse(i)["words"][j]
        IN  /\ \A k \in {"lemma", "morph"} \cap DOMAIN w : ~IsNull(w[k])
            /\ "strongs" \in DOMAIN w => w["strongs"] # <<>>
            /\ "metadata" \in DOMAIN w =>
                 /\ DOMAIN w["metadata"] # {}
                 /\ "colophon" \in DOMAIN w["metadata"] => w["metadata"]["colophon"] = TRUE

\* C28: the gematria object of every saved verse record has the three keys
\* standard, ordinal and reduced with integer values, also when the verse
\* has no body word.
C28_VerseGematriaHasThreeKeys ==
  \A i \in SavedVerses :
    IsLatestSave(i) =>
      /\ DOMAIN FileOfVerse(i)["gematria"] = GematriaKeys
      /\ \A key \in GematriaKeys : FileOfVerse(i)["gematria"][key] \in Int

(***************************************************************************)
(* Claims about the lifetime of the parsed verses                          *)
(***************************************************************************)
\* C29: a finalized verse keeps its place, its identity, its text and its
\* body words (texts, positions, order) at every later step of the pass;
\* colophon attachment only gives it colophon words, numbered after its
\* body words.
C29_FinalizedVerseNeverChanges ==
  [][ /\ Len(verses') >= Len(verses)
      /\ \A i \in 1..Len(verses) :
           /\ verses'[i].text = verses[i].text
           /\ verses'[i].words = verses[i].words
           /\ VersePath(verses'[i]) = VersePath(verses[i])
           /\ verses'[i].colophonWords # verses[i].colophonWords =>
                /\ EndsDocument
                /\ HasColophonWords(verses'[i])
                /\ \A k \in 1..Len(ValueOf(verses'[i].colophonWords)) :
                     ValueOf(verses'[i].colophonWords)[k].position
                       = Len(verses[i].words) + k ]_vars

\* a verse with body words was finalized before a later verse, the stream
\* has ended and the verse holds colophon words
C29_Witness ==
  /\ phase \in {"save", "done"}
  /\ \E i \in 1..Len(verses) :
       /\ i < Len(verses)
       /\ verses[i].words # <<>>
       /\ HasColophonWords(verses[i])

(***************************************************************************)
(* Claims about repeated calls and repeated passes                         *)
(***************************************************************************)
\* C30: a second pass over the same events returns the verses the first pass
\* returned and leaves the records the first pass saved, and no call of
\* extractStrongs leaves a lastIndex behind for the next one.
C30_SecondPassSameRecords ==
  /\ lastIndex = 0
  /\ pass = 2 => phase # "exit"
  /\ (pass = 2 /\ phase \in {"save", "done"}) => verses = firstVerses
  /\ (pass = 2 /\ phase = "done") => files = firstFiles

\* the second pass is done; the document has a word with Strong's codes and
\* a colophon that was attached
C30_Witness ==
  /\ pass = 2
  /\ phase = "done"
  /\ \E i \in 1..Len(verses) :
       \/ \E k \in 1..Len(verses[i].words) : ~IsNull(verses[i].words[k].strongs)
       \/ HasColophonWords(verses[i])

(***************************************************************************)
(* Claims about the states of the parser                                   *)
(***************************************************************************)
\* the next opentag event opens a colophon container whose osisID names a book
OpensColophon ==
  /\ phase = "parse"
  /\ Len(openTags') = Len(openTags) + 1
  /\ openTags'[Len(openTags')].name = "div"
  /\ Attr(openTags'[Len(openTags')], "type") = Some(<<"c","o","l","o","p","h","o","n">>)
  /\ Truthy(Attr(openTags'[Len(openTags')], "osisID"))

\* the colophon words collected so far are numbered 1..m and the colophon
\* counter stands after them; no body word carries the colophon flag
ColophonCountsApart ==
  /\ \A k \in 1..Len(colophonWords) : colophonWords[k].position = k
  /\ colophonPos = Len(colophonWords) + 1
  /\ \A k \in 1..Len(words) : "colophon" \notin DOMAIN words[k].metadata

\* C31: entering a colophon container records the book and starts an empty
\* colophon word sequence with its counter at 1; the colophon words are
\* numbered 1..m before attachment; a step that adds colophon words leaves the
\* words and the counter of the verse alone, and a step that changes the
\* words or the counter of the verse leaves those of the colophon alone.
C31_ColophonHasOwnCounter ==
  [][ /\ OpensColophon =>
           /\ inColophon'
           /\ colophonBook'
                 = ColophonBookOf(ValueOf(Attr(openTags'[Len(openTags')], "osisID")))
           /\ colophonWords' = <<>>
           /\ colophonPos' = 1
           /\ UNCHANGED <<words, pos, verses>>
      /\ phase = "parse" => ColophonCountsApart
      /\ phase' = "parse" => ColophonCountsApart'
      /\ (colophonWords' # colophonWords \/ colophonPos' # colophonPos) =>
           /\ UNCHANGED <<words, pos, verses>>
           /\ OpensColophon \/ inColophon
      /\ (words' # words \/ pos' # pos) => UNCHANGED <<colophonWords, colophonPos>> ]_vars

\* a verse with a body word is open and the colophon inside it holds two words
C31_Witness ==
  /\ phase = "parse"
  /\ ~IsNull(current) /\ inColophon
  /\ Len(words) >= 1
  /\ Len(colophonWords) >= 2

(***************************************************************************)
(* Claims about the documented format of the records                       *)
(***************************************************************************)
\* "crosswire-KJV:<Book>.<chapter>.<verse>"
DocumentedId(verse) ==
  <<"c","r","o","s","s","w","i","r","e","-","K","J","V",":">>
    \o verse.book \o <<".">> \o NumToString(verse.chapter)
    \o <<".">> \o NumToString(verse.number)

\* C32: every saved verse record has the id "crosswire-KJV:<Book>.<chapter>.
\* <verse>", a text and a list of words, and a word entry gives its Strong's
\* reference as one string under the key strong, never as a list under the key
\* strongs.
C32_RecordHasDocumentedShape ==
  \A i \in SavedVerses :
    IsLatestSave(i) =>
      /\ {"id", "text", "words"} \subseteq DOMAIN FileOfVerse(i)
      /\ FileOfVerse(i)["id"] = DocumentedId(verses[i])
      /\ \A j \in 1..Len(FileOfVerse(i)["words"]) :
           "strongs" \notin DOMAIN FileOfVerse(i)["words"][j]

(***************************************************************************)
(* Claims about loadChapter                                                *)
(***************************************************************************)
\* the verse number a file name is written with
VerseNumberOfFile(file) == ParseInt(SubSeq(file, 1, Len(file) - 5))

\* the verse files among the entries of the directory
VerseFilesListed == { dirListing[i] : i \in { j \in 1..Len(dirListing) : EndsWithJson(dirListing[j]) } }

\* C33: loadChapter returns one record per verse file of the directory, in
\* ascending order of the verse number, whatever the order of the listing.
C33_ChapterInVerseOrder ==
  ~IsNull(chapterResult) =>
    LET records == ValueOf(chapterResult)
    IN  /\ Len(records) = Cardinality(VerseFilesListed)
        /\ \A f \in VerseFilesListed : \E k \in 1..Len(records) : records[k] = StoredRecord(f)
        /\ \A k \in 1..(Len(records) - 1) :
             VerseNumberOfFile(records[k].file) < VerseNumberOfFile(records[k + 1].file)

\* the directory lists 10.json before 2.json and a file that is no verse file
C33_Witness ==
  /\ ~IsNull(chapterResult)
  /\ \E i, j, k \in 1..Len(dirListing) :
       /\ i < j
       /\ dirListing[i] = <<"1","0",".","j","s","o","n">>
       /\ dirListing[j] = <<"2",".","j","s","o","n">>
       /\ ~EndsWithJson(dirListing[k])

(***************************************************************************)
(* Claims about the nesting of verses, colophons and notes                 *)
(***************************************************************************)
\* C34: at every point of the parse at most one of the states inside a verse
\* body and inside a colophon is active.
C34_VerseAndColophonExclusive ==
  phase = "parse" => ~(~IsNull(current) /\ inColophon)

\* the element on top of the open elements is a colophon container
TopIsColophonContainer ==
  /\ TopTag.name = "div"
  /\ Attr(TopTag, "type") = Some(<<"c","o","l","o","p","h","o","n">>)

\* C35: the close of a div that is no colophon container, inside a colophon,
\* leaves the colophon active and records nothing: the book, the words
\* collected and the recorded colophons stay as they are.
C35_OnlyContainerEndsColophon ==
  [][ (ClosesDiv /\ inColophon /\ ~TopIsColophonContainer) =>
        /\ inColophon'
        /\ UNCHANGED <<colophonBook, colophonWords, colophonPos, colophons>> ]_vars

\* the note elements that are open
OpenNotes == { d \in 1..Len(openTags) : openTags[d].name = "note" }

\* C36: the note depth is a natural number that never exceeds the number of
\* open note elements; it is 0 when no note is open.
C36_NoteDepthWithinOpenNotes ==
  /\ noteDepth \in Nat
  /\ noteDepth <= Cardinality(OpenNotes)
  /\ OpenNotes = {} => noteDepth = 0

\* a verse has ended inside a note that was counted when it opened
C36_Witness ==
  /\ phase = "parse"
  /\ IsNull(current) /\ ~inColophon
  /\ verses # <<>>
  /\ noteDepth = 1
  /\ Cardinality(OpenNotes) = 1

(***************************************************************************)
(* Claims about the character data of a verse                              *)
(***************************************************************************)
\* the event that starts the first verse: the first open of a verse element
\* with an osisID (0: none)
FirstVerseStart ==
  LET starts == { i \in 1..Len(eventLog) :
                    /\ eventLog[i].kind = "open"
                    /\ eventLog[i].tag.name = "verse"
                    /\ "osisID" \in DOMAIN eventLog[i].tag.attributes }
  IN  IF starts = {} THEN 0 ELSE CHOOSE i \in starts : \A j \in starts : i <= j

\* the event that ends the first verse: the first close, after its start, of
\* a verse element with an eID, or with an osisID and no sID (0: none)
FirstVerseEnd ==
  LET ends == { i \in (FirstVerseStart + 1)..Len(eventLog) :
                  /\ FirstVerseStart > 0
                  /\ eventLog[i].kind = "close"
                  /\ eventLog[i].tag.name = "verse"
                  /\ \/ "eID" \in DOMAIN eventLog[i].tag.attributes
                     \/ /\ "osisID" \in DOMAIN eventLog[i].tag.attributes
                        /\ "sID" \notin DOMAIN eventLog[i].tag.attributes }
  IN  IF ends = {} THEN 0 ELSE CHOOSE i \in ends : \A j \in ends : i <= j

\* event i lies between the open and the close of a note element
EventInsideNote(i) ==
  Cardinality({ j \in 1..(i - 1) : eventLog[j].kind = "open" /\ eventLog[j].tag.name = "note" })
    > Cardinality({ j \in 1..(i - 1) : eventLog[j].kind = "close" /\ eventLog[j].tag.name = "note" })

\* the characters other than white space and slashes of the character data
\* events from..to, in the order of arrival
RECURSIVE ArrivedChars(_, _)
ArrivedChars(from, to) ==
  IF from > to THEN <<>>
  ELSE (IF eventLog[from].kind = "text"
          THEN SelectSeq(eventLog[from].text, LAMBDA c : ~IsSpace(c) /\ c # "/")
          ELSE <<>>)
       \o ArrivedChars(from + 1, to)

\* the characters of the texts of the words, in the order of the positions
RECURSIVE WordChars(_)
WordChars(ws) ==
  IF ws = <<>> THEN <<>>
  ELSE SelectSeq(Head(ws).text, LAMBDA c : ~IsSpace(c)) \o WordChars(Tail(ws))

\* a is b with some elements left out
RECURSIVE IsSubsequence(_, _)
IsSubsequence(a, b) ==
  IF a = <<>> THEN TRUE
  ELSE IF b = <<>> THEN FALSE
  ELSE IF Head(a) = Head(b) THEN IsSubsequence(Tail(a), Tail(b))
  ELSE IsSubsequence(a, Tail(b))

\* C37: the body words of a finalized verse are in the order in which their
\* text arrived: the characters of the words of the first verse, read by
\* position, occur in that order in the character data of the verse.
C37_WordsInDocumentOrder ==
  (Len(verses) >= 1 /\ FirstVerseEnd > 0) =>
    IsSubsequence(WordChars(verses[1].words),
                  ArrivedChars(FirstVerseStart, FirstVerseEnd))

\* the characters other than white space and slashes of the character data
\* events from..to that lie outside every note, in the order of arrival
RECURSIVE CapturedChars(_, _)
CapturedChars(from, to) ==
  IF from > to THEN <<>>
  ELSE (IF eventLog[from].kind = "text" /\ ~EventInsideNote(from)
          THEN SelectSeq(eventLog[from].text, LAMBDA c : ~IsSpace(c) /\ c # "/")
          ELSE <<>>)
       \o CapturedChars(from + 1, to)

\* how often c occurs in seq
Occurrences(c, seq) == Cardinality({ i \in 1..Len(seq) : seq[i] = c })

\* C38: no captured text is lost: every character other than white space and
\* slashes that arrived while the first verse was open, outside every note,
\* occurs at least as often in the texts of the body words of that verse.
C38_NoCapturedTextLost ==
  (Len(verses) >= 1 /\ FirstVerseEnd > 0) =>
    LET arrived == CapturedChars(FirstVerseStart, FirstVerseEnd)
        kept    == WordChars(verses[1].words)
    IN  \A i \in 1..Len(arrived) :
          Occurrences(arrived[i], arrived) <= Occurrences(arrived[i], kept)

(***************************************************************************)
(* Claims about the digit runs of a lemma attribute                        *)
(***************************************************************************)
\* where the maximal runs of digits of value start
DigitRunStarts(value) ==
  { i \in 1..Len(value) : IsDigit(value[i]) /\ (i = 1 \/ ~IsDigit(value[i - 1])) }

\* the length of the maximal run of digits that starts at i
DigitRunAt(value, i) == DigitRunLen(SubSeq(value, i, Len(value)))

\* C39: extractStrongs returns at most one code per maximal run of digits: no
\* code for a run of fewer than 3 digits, and no more than one for a run of
\* more than 5 digits.
C39_OneCodePerDigitRun ==
  (~IsNull(strongsResult) /\ ~IsNull(strongsValue)) =>
    LET value == ValueOf(strongsValue)
    IN  Len(ValueOf(strongsResult))
          <= Cardinality({ i \in DigitRunStarts(value) : DigitRunAt(value, i) >= 3 })

====
